---- MODULE Spec2Model ----
(***************************************************************************)
(* A model of the dyn_serde adapters: the state-holding enums              *)
(* InplaceDeserializer, InplaceVisitor, InplaceDeserializeSeed,            *)
(* InplaceSeqAccess, InplaceMapAccess, InplaceEnumAccess and               *)
(* InplaceSerializer, their dyn_* mirror methods, and the serde-facing     *)
(* glue implemented on the trait objects.                                  *)
(*                                                                         *)
(* One run exercises one adapter instance (fam) from its construction:     *)
(* every action is one call of a mirror or glue method, with the calls it  *)
(* makes into the wrapped backend, cursor, visitor or seed included.       *)
(***************************************************************************)
EXTENDS Integers, Sequences, FiniteSets, TLC

VARIABLES fam, input, de, vis, seed, seq, map, enm, ser, last, cnt, error, stack

vars == <<fam, input, de, vis, seed, seq, map, enm, ser, last, cnt, error, stack>>

(* ----------------------------- bounds ---------------------------------- *)
\* longest script of outcomes a wrapped sequence or map cursor plays
MaxScript == 2
\* most elements fed to one wrapped builder
MaxElems == 2
\* the count up to which the calls into the wrapped objects are told apart
MaxCount == 2

(* ----------------------------- errors ---------------------------------- *)
NoErr == [code |-> "-", msg |-> "-"]

\* InplaceDeserializeError: the protocol codes of the deserializing adapters
InplaceDeserializeError ==
    {"Ok", "Error", "NotDeserializer", "NotDeserializeSeed", "NotVisitor",
     "NotSeqAccess", "NotMapAccess", "NotEnumAccess", "NotVariantAccess"}

\* Display for InplaceDeserializeError
InplaceDeserializeErrorDisplay(c) ==
    CASE c = "Ok" -> "the deserialization has done successfully"
      [] c = "Error" -> "the deserialization has done unsuccessfully"
      [] c = "NotDeserializer" -> "the deserializer is not ready"
      [] c = "NotDeserializeSeed" -> "the deserialize seed is not ready"
      [] c = "NotVisitor" -> "the visitor is not ready"
      [] c = "NotSeqAccess" -> "the visitor is not ready to deserialize the contents of the sequence"
      [] c = "NotMapAccess" -> "the visitor is not ready to deserialize the contents of the map"
      [] c = "NotEnumAccess" -> "the visitor is not ready to deserialize the contents of the enum"
      [] c = "NotVariantAccess" -> "the visitor is not ready to deserialize the contents of the enum variant"

\* DeserializeError(Err(code)): From<InplaceDeserializeError>
DeserializeErrorFrom(c) == [code |-> c, msg |-> "-"]

\* DeserializeError(Ok(msg)): serde::de::Error::custom
DeserializeErrorCustom(m) == [code |-> "Custom", msg |-> m]

\* Display for DeserializeError
DeserializeErrorDisplay(e) ==
    IF e.code = "Custom" THEN e.msg ELSE InplaceDeserializeErrorDisplay(e.code)

\* DeserializeError::into_error: always the backend's custom error of the text
DeserializeErrorIntoError(e) ==
    [code |-> "BackendCustom", msg |-> DeserializeErrorDisplay(e)]

\* an error of the wrapped backend's own making
BackendError(m) == [code |-> "Backend", msg |-> m]

\* E::custom(x) of the wrapped backend for a DeserializeError x
BackendCustom(e) == [code |-> "BackendCustom", msg |-> DeserializeErrorDisplay(e)]

(* ----------------------------- results --------------------------------- *)
\* A method that calls another and then uses its result several times is
\* written CHOOSE x \in {f(r) : r \in {call}} : TRUE, the one element of a
\* singleton: r is the result of the one call the code makes.
Ok(v) == [ok |-> TRUE, val |-> v, err |-> NoErr]
Err(e) == [ok |-> FALSE, val |-> "-", err |-> e]
NoRes == [ok |-> FALSE, val |-> "none", err |-> NoErr]

(* ------------------------------ slots ---------------------------------- *)
\* a state-holding enum value: its variant, the value it holds (a backend, a
\* result), the error it holds, and the progress of a held cursor or builder
Slot(tag, val, err, n) == [tag |-> tag, val |-> val, err |-> err, n |-> n]
None == Slot("None", "-", NoErr, 0)

(* ------------------------ the hint and visit sets ---------------------- *)
\* the methods of trait Deserializer
Hints ==
    {"any", "bool", "i8", "i16", "i32", "i64", "i128", "u8", "u16", "u32",
     "u64", "u128", "f32", "f64", "char", "str", "string", "bytes",
     "byte_buf", "option", "unit", "unit_struct", "newtype_struct", "seq",
     "tuple", "tuple_struct", "map", "struct", "enum", "identifier",
     "ignored_any"}

\* the dyn_visit_* methods of trait Visitor
Visits ==
    {"bool", "i8", "i16", "i32", "i64", "i128", "u8", "u16", "u32", "u64",
     "u128", "f32", "f64", "char", "str", "borrowed_str", "string", "bytes",
     "borrowed_bytes", "byte_buf", "none", "some", "unit", "newtype_struct",
     "seq", "map", "enum"}

(* ------------------- the wrapped backend and visitor ------------------- *)
\* the data formats of the wrapped backend: one that reads the shape from the
\* input (as the JSON backend of the tests does) and one that reads whatever
\* shape the hint names
Formats == {"described", "positional"}

\* what the input holds at the position of the wrapped deserializer
Datums == {"bool", "int", "seq"}

\* the target types whose visitors the adapters wrap
Targets == {"bool", "i64", "i128", "value"}

\* the deserialize_* method the target type's Deserialize impl calls
TargetHint(t) ==
    CASE t = "bool" -> "bool"
      [] t = "i64" -> "i64"
      [] t = "i128" -> "i128"
      [] t = "value" -> "any"

\* the visit_* methods the target type's visitor implements
Accepts(t) ==
    CASE t = "bool" -> {"bool"}
      [] t = "i64" -> {"i8", "i16", "i32", "i64", "u8", "u16", "u32", "u64"}
      [] t = "i128" -> {"i8", "i16", "i32", "i64", "i128", "u8", "u16", "u32", "u64", "u128"}
      [] t = "value" -> Visits \ {"enum", "newtype_struct"}

\* the visit a positional backend makes for a hint
HintVisit(h) ==
    CASE h \in {"bool", "i8", "i16", "i32", "i64", "i128", "u8", "u16", "u32",
                "u64", "u128", "f32", "f64", "char", "string", "byte_buf",
                "unit", "newtype_struct", "seq", "map", "enum"} -> h
      [] h = "str" -> "borrowed_str"
      [] h = "bytes" -> "borrowed_bytes"
      [] h = "option" -> "some"
      [] h = "unit_struct" -> "unit"
      [] h \in {"tuple", "tuple_struct", "struct"} -> "seq"
      [] h = "identifier" -> "u32"
      [] OTHER -> "fail"

\* the visit a self-describing backend makes for a datum under a hint
DatumVisit(d, h) ==
    CASE h = "option" -> "some"
      [] d = "bool" -> "bool"
      [] d = "int" /\ h \in {"i128", "u128"} -> h
      [] d = "int" -> "u64"
      [] d = "seq" -> "seq"

\* the visit the wrapped backend's deserialize_h makes on this input, or "fail"
\* when it rejects the hint before visiting
BackendPlan(inp, h) ==
    IF inp.fmt = "positional" THEN HintVisit(h) ELSE DatumVisit(inp.datum, h)

(* --------------------------- InplaceVisitor ---------------------------- *)
\* InplaceVisitor::Visitor(v): the slot holds the visitor of target type t
NewVisitor(t) == Slot("Visitor", t, NoErr, 0)

\* the value the wrapped visitor builds from the visit k
ValueOf(k) ==
    CASE k = "bool" -> "bool"
      [] k \in {"i8", "i16", "i32", "i64", "i128", "u8", "u16", "u32", "u64", "u128"} -> "integer"
      [] k \in {"f32", "f64"} -> "float"
      [] k \in {"char", "str", "borrowed_str", "string"} -> "text"
      [] k \in {"bytes", "borrowed_bytes", "byte_buf"} -> "bytes"
      [] k \in {"none", "unit"} -> "null"
      [] OTHER -> k

\* visit_with that leaves the visitor in the slot when the visit fails
visit_with_keep(v, k) ==
    IF v.tag = "Visitor"
    THEN IF k \in Accepts(v.val)
         THEN [slot |-> Slot("Value", ValueOf(k), NoErr, 0), ret |-> Ok("()"),
               vcalls |-> 1]
         ELSE [slot |-> v,
               ret |-> Err(DeserializeErrorCustom("invalid type")), vcalls |-> 1]
    ELSE [slot |-> v, ret |-> Err(DeserializeErrorFrom("NotVisitor")), vcalls |-> 0]

\* InplaceVisitor::visit_with, for the visit k: the slot, the result, and the
\* number of times the wrapped visitor ran
visit_with(v, k) ==
    IF v.tag = "Visitor"
    THEN IF k \in Accepts(v.val)
         THEN [slot |-> Slot("Value", ValueOf(k), NoErr, 0), ret |-> Ok("()"),
               vcalls |-> 1]
         ELSE [slot |-> None,
               ret |-> Err(DeserializeErrorCustom("invalid type")), vcalls |-> 1]
    ELSE [slot |-> v, ret |-> Err(DeserializeErrorFrom("NotVisitor")), vcalls |-> 0]

\* expecting of the wrapped visitor of target type t
Visitor_expecting(t) == "a value of type " \o t

\* dyn_expecting that moves the visitor out of the slot to ask it
Visitor_dyn_expecting_taken(v) ==
    CASE v.tag = "Visitor" -> [slot |-> None, text |-> Visitor_expecting(v.val)]
      [] v.tag = "Value" ->
           [slot |-> v, text |-> "nothing (the deserialization has done successfully)"]
      [] OTHER -> [slot |-> v, text |-> "nothing (the visitor is not ready)"]

\* Visitor::dyn_expecting on the InplaceVisitor (&self): the slot after it and
\* the text written
Visitor_dyn_expecting(v) ==
    CASE v.tag = "Visitor" -> [slot |-> v, text |-> Visitor_expecting(v.val)]
      [] v.tag = "Value" ->
           [slot |-> v, text |-> "nothing (the deserialization has done successfully)"]
      [] OTHER -> [slot |-> v, text |-> "nothing (the visitor is not ready)"]

\* the result of a call that panicked
Panic == [ok |-> FALSE, val |-> "panic", err |-> NoErr]

\* into_result that looks at the result of the dyn call before the slot
Visitor_into_result_checked(v, result) ==
    IF ~result.ok THEN Err(DeserializeErrorFrom(result.err.code))
    ELSE IF v.tag = "Value" THEN Ok(v.val)
    ELSE Panic

\* InplaceVisitor::into_result
Visitor_into_result(v, result) ==
    IF v.tag = "Value" THEN Ok(v.val)
    ELSE IF result.ok THEN Panic
    ELSE Err(DeserializeErrorFrom(result.err.code))

\* serde::de::Visitor for &mut dyn Visitor: visit_k::<E> of the backend's E
Visitor_visit(v, k) ==
    CHOOSE x \in
        {[slot |-> r.slot,
          ret |-> IF r.ret.ok THEN Ok("()") ELSE Err(BackendCustom(r.ret.err)),
          vcalls |-> r.vcalls] : r \in {visit_with(v, k)}} : TRUE

(* ------------------------- InplaceDeserializer ------------------------- *)
\* <dyn Deserializer>::new
NewDeserializer == Slot("Deserializer", "D", NoErr, 0)

\* the wrapped backend's deserialize_h, driving the erased visitor v
Backend_deserialize(inp, h, v) ==
    LET k == BackendPlan(inp, h)
    IN IF k = "fail"
       THEN [res |-> Err(BackendError("unsupported hint")), vis |-> v, vcalls |-> 0]
       ELSE CHOOSE x \in
              {[res |-> IF ~g.ret.ok THEN g.ret
                        ELSE IF inp.trail THEN Err(BackendError("trailing data"))
                        ELSE Ok("()"),
                vis |-> g.slot, vcalls |-> g.vcalls] : g \in {Visitor_visit(v, k)}} : TRUE

\* deserialize_with that puts the backend back when its hint method fails
deserialize_with_restore(d, inp, h, v) ==
    IF d.tag = "Deserializer"
    THEN CHOOSE x \in
           {IF b.res.ok
            THEN [de |-> None, vis |-> b.vis, ret |-> Ok("()"), bres |-> b.res,
                  calls |-> 1, vcalls |-> b.vcalls, bcall |-> h]
            ELSE [de |-> d, vis |-> b.vis,
                  ret |-> Err(DeserializeErrorFrom("Error")), bres |-> b.res,
                  calls |-> 1, vcalls |-> b.vcalls, bcall |-> h]
              : b \in {Backend_deserialize(inp, h, v)}} : TRUE
    ELSE [de |-> d, vis |-> v, ret |-> Err(DeserializeErrorFrom("NotDeserializer")),
          bres |-> NoRes, calls |-> 0, vcalls |-> 0, bcall |-> "-"]

\* InplaceDeserializer::deserialize_with, for the hint h and the visitor slot v
deserialize_with(d, inp, h, v) ==
    IF d.tag = "Deserializer"
    THEN CHOOSE x \in
           {IF b.res.ok
            THEN [de |-> None, vis |-> b.vis, ret |-> Ok("()"), bres |-> b.res,
                  calls |-> 1, vcalls |-> b.vcalls, bcall |-> h]
            ELSE [de |-> Slot("Error", "-", b.res.err, 0), vis |-> b.vis,
                  ret |-> Err(DeserializeErrorFrom("Error")), bres |-> b.res,
                  calls |-> 1, vcalls |-> b.vcalls, bcall |-> h]
              : b \in {Backend_deserialize(inp, h, v)}} : TRUE
    ELSE [de |-> d, vis |-> v, ret |-> Err(DeserializeErrorFrom("NotDeserializer")),
          bres |-> NoRes, calls |-> 0, vcalls |-> 0, bcall |-> "-"]

\* is_human_readable of the wrapped backend: a self-describing text format is
\* human readable, a positional binary format is not
Backend_is_human_readable(inp) ==
    IF inp.fmt = "described" THEN "true" ELSE "false"

\* Deserializer::dyn_is_human_readable on the InplaceDeserializer
Deserializer_dyn_is_human_readable(d, inp) ==
    IF d.tag = "Deserializer" THEN Backend_is_human_readable(inp) ELSE "true"

\* the dyn_deserialize_* method each deserialize_* of the glue calls
GlueHint(h) == IF h = "bool" THEN "any" ELSE h

\* the hints the glue implements; the others are serde's provided methods
GlueHints == Hints \ {"i128", "u128"}

\* serde::Deserializer for &mut dyn Deserializer: deserialize_h with the
\* visitor of target type t
Deserializer_deserialize(d, inp, h, t) ==
    IF h \in GlueHints
    THEN CHOOSE x \in
           {[de |-> r.de, ret |-> Visitor_into_result(r.vis, r.ret),
             bres |-> r.bres, calls |-> r.calls, vcalls |-> r.vcalls,
             bcall |-> r.bcall]
              : r \in {deserialize_with(d, inp, GlueHint(h), NewVisitor(t))}} : TRUE
    ELSE [de |-> d, ret |-> Err(DeserializeErrorCustom("i128 is not supported")),
          bres |-> NoRes, calls |-> 0, vcalls |-> 0, bcall |-> "-"]

\* the same backend driven directly by the target type's visitor
Direct_deserialize(inp, h, t) ==
    LET k == BackendPlan(inp, h)
    IN IF k = "fail" THEN Err(BackendError("unsupported hint"))
       ELSE IF k \notin Accepts(t) THEN Err([code |-> "InvalidType", msg |-> "invalid type"])
       ELSE IF inp.trail THEN Err(BackendError("trailing data"))
       ELSE Ok(ValueOf(k))

(* ----------------------- InplaceDeserializeSeed ------------------------ *)
\* InplaceDeserializeSeed::DeserializeSeed(seed): the seed of target type t
NewSeed(t) == Slot("DeserializeSeed", t, NoErr, 0)

\* dyn_deserialize that leaves the seed in the slot when it fails
Seed_dyn_deserialize_keep(sd, d, inp) ==
    IF sd.tag = "DeserializeSeed"
    THEN CHOOSE x \in
           {[seed |-> IF g.ret.ok THEN Slot("Value", g.ret.val, NoErr, 0) ELSE sd,
             de |-> g.de,
             ret |-> IF g.ret.ok THEN Ok("()") ELSE g.ret,
             bres |-> g.bres, calls |-> g.calls, vcalls |-> 1, bcall |-> g.bcall]
              : g \in {Deserializer_deserialize(d, inp, TargetHint(sd.val), sd.val)}} : TRUE
    ELSE [seed |-> sd, de |-> d,
          ret |-> Err(DeserializeErrorFrom("NotDeserializeSeed")),
          bres |-> NoRes, calls |-> 0, vcalls |-> 0, bcall |-> "-"]

\* DeserializeSeed::dyn_deserialize on the InplaceDeserializeSeed sd, given the
\* dyn Deserializer d: the wrapped seed deserializes its target type from d
Seed_dyn_deserialize(sd, d, inp) ==
    IF sd.tag = "DeserializeSeed"
    THEN CHOOSE x \in
           {[seed |-> IF g.ret.ok THEN Slot("Value", g.ret.val, NoErr, 0) ELSE None,
             de |-> g.de,
             ret |-> IF g.ret.ok THEN Ok("()") ELSE g.ret,
             bres |-> g.bres, calls |-> g.calls, vcalls |-> 1, bcall |-> g.bcall]
              : g \in {Deserializer_deserialize(d, inp, TargetHint(sd.val), sd.val)}} : TRUE
    ELSE [seed |-> sd, de |-> d,
          ret |-> Err(DeserializeErrorFrom("NotDeserializeSeed")),
          bres |-> NoRes, calls |-> 0, vcalls |-> 0, bcall |-> "-"]

\* InplaceDeserializer::into_result
Deserializer_into_result(d, result) ==
    IF result.ok \/ result = Panic THEN result
    ELSE IF d.tag = "Error" THEN Err(d.err)
    ELSE Err(DeserializeErrorIntoError(result.err))

\* serde::de::DeserializeSeed for &mut dyn DeserializeSeed: deserialize from a
\* backend deserializer over inp
DeserializeSeed_deserialize(sd, inp) ==
    CHOOSE x \in
        {[seed |-> r.seed, ret |-> Deserializer_into_result(r.de, r.ret),
          bres |-> r.bres, calls |-> r.calls, vcalls |-> r.vcalls,
          bcall |-> r.bcall] : r \in {Seed_dyn_deserialize(sd, NewDeserializer, inp)}} : TRUE

\* InplaceDeserializeSeed::into_result
Seed_into_result(sd, result) ==
    IF sd.tag = "Value" THEN Ok(sd.val)
    ELSE IF result.ok THEN Panic
    ELSE Err(DeserializeErrorFrom(result.err.code))

\* InplaceDeserializeSeed::into_result_option; a result of Ok(None) has the
\* value "none"
Seed_into_result_option(sd, result) ==
    IF result.ok /\ result.val = "none" THEN Ok("none")
    ELSE IF sd.tag = "Value" THEN Ok(sd.val)
    ELSE IF result.ok THEN Panic
    ELSE Err(DeserializeErrorFrom(result.err.code))

(* ----------------- InplaceSeqAccess and InplaceMapAccess --------------- *)
\* what a wrapped cursor reports at one call: an element, exhaustion, an error
\* before it reads the element, an error after the seed has read it (late)
Outcomes == {"some", "none", "err", "late"}

\* InplaceSeqAccess::SeqAccess(a), InplaceMapAccess::MapAccess(a): the cursor
\* at the start of its script
NewSeqAccess == Slot("SeqAccess", "A", NoErr, 0)
NewMapAccess == Slot("MapAccess", "A", NoErr, 0)

\* the outcome the wrapped cursor reports at its next call: it plays its script
\* and reports exhaustion once the script is over
CursorOutcome(a, inp) ==
    IF a.n < Len(inp.script) THEN inp.script[a.n + 1] ELSE "none"

\* the cursor after a call
CursorAdvance(a, inp) ==
    IF a.n < Len(inp.script) THEN [a EXCEPT !.n = @ + 1] ELSE a

\* the wrapped cursor's next_element_seed / next_key_seed: an element is
\* deserialized by the erased seed sd
Cursor_next(a, inp, sd) ==
    LET o == CursorOutcome(a, inp)
    IN CASE o = "none" -> [res |-> Ok("none"), seed |-> sd, vcalls |-> 0]
         [] o = "err" -> [res |-> Err(BackendError("cursor")), seed |-> sd, vcalls |-> 0]
         [] o \in {"some", "late"} ->
              CHOOSE x \in
                {[res |-> IF ~g.ret.ok THEN g.ret
                          ELSE IF o = "late" THEN Err(BackendError("cursor"))
                          ELSE Ok("some"),
                  seed |-> g.seed,
                  vcalls |-> g.vcalls] : g \in {DeserializeSeed_deserialize(sd, inp)}} : TRUE

\* the wrapped cursor's next_value_seed: there is a value where the script has
\* an element
Cursor_next_value(a, inp, sd) ==
    LET o == CursorOutcome(a, inp)
    IN CASE o = "none" -> [res |-> Err(BackendError("no value")), seed |-> sd, vcalls |-> 0]
         [] o = "err" -> [res |-> Err(BackendError("cursor")), seed |-> sd, vcalls |-> 0]
         [] o \in {"some", "late"} ->
              CHOOSE x \in
                {[res |-> IF ~g.ret.ok THEN g.ret
                          ELSE IF o = "late" THEN Err(BackendError("cursor"))
                          ELSE Ok("()"),
                  seed |-> g.seed,
                  vcalls |-> g.vcalls] : g \in {DeserializeSeed_deserialize(sd, inp)}} : TRUE

\* the wrapped cursor's next_entry_seed: the key by ksd, then the value by a
\* seed of the same target type
Cursor_next_entry(a, inp, ksd) ==
    CHOOSE x \in
        {IF k.res.ok /\ k.res.val = "some" /\ ~v.ret.ok
         THEN [res |-> v.ret, seed |-> k.seed, vcalls |-> k.vcalls + v.vcalls]
         ELSE k
           : k \in {Cursor_next(a, inp, ksd)},
             v \in {DeserializeSeed_deserialize(NewSeed(inp.target), inp)}} : TRUE

\* the call of the wrapped cursor a next method makes
CursorCall(op, a, inp, sd) ==
    CASE op \in {"next_element", "next_key"} -> Cursor_next(a, inp, sd)
      [] op = "next_value" -> Cursor_next_value(a, inp, sd)
      [] op = "next_entry" -> Cursor_next_entry(a, inp, sd)

\* next_with that gives the cursor up once it reports exhaustion
next_with_latch(a, holding, notready, op, inp, sd) ==
    IF a.tag = holding
    THEN CHOOSE x \in
           {IF c.res.ok
            THEN [slot |-> IF c.res.val = "none" THEN Slot("Error", "-", NoErr, 0)
                           ELSE CursorAdvance(a, inp),
                  seed |-> c.seed, ret |-> c.res,
                  bres |-> c.res, calls |-> 1, vcalls |-> c.vcalls, bcall |-> op]
            ELSE [slot |-> Slot("Error", "-", c.res.err, 0), seed |-> c.seed,
                  ret |-> Err(DeserializeErrorFrom("Error")), bres |-> c.res,
                  calls |-> 1, vcalls |-> c.vcalls, bcall |-> op]
              : c \in {CursorCall(op, a, inp, sd)}} : TRUE
    ELSE [slot |-> a, seed |-> sd, ret |-> Err(DeserializeErrorFrom(notready)),
          bres |-> NoRes, calls |-> 0, vcalls |-> 0, bcall |-> "-"]

\* next_with that keeps the cursor in the slot when the cursor fails
next_with_forget(a, holding, notready, op, inp, sd) ==
    IF a.tag = holding
    THEN CHOOSE x \in
           {IF c.res.ok
            THEN [slot |-> CursorAdvance(a, inp), seed |-> c.seed, ret |-> c.res,
                  bres |-> c.res, calls |-> 1, vcalls |-> c.vcalls, bcall |-> op]
            ELSE [slot |-> CursorAdvance(a, inp), seed |-> c.seed,
                  ret |-> Err(DeserializeErrorFrom("Error")), bres |-> c.res,
                  calls |-> 1, vcalls |-> c.vcalls, bcall |-> op]
              : c \in {CursorCall(op, a, inp, sd)}} : TRUE
    ELSE [slot |-> a, seed |-> sd, ret |-> Err(DeserializeErrorFrom(notready)),
          bres |-> NoRes, calls |-> 0, vcalls |-> 0, bcall |-> "-"]

\* InplaceSeqAccess::next_with and InplaceMapAccess::next_with: holding is the
\* variant that holds the cursor, notready the error of the other variant
next_with(a, holding, notready, op, inp, sd) ==
    IF a.tag = holding
    THEN CHOOSE x \in
           {IF c.res.ok
            THEN [slot |-> CursorAdvance(a, inp), seed |-> c.seed, ret |-> c.res,
                  bres |-> c.res, calls |-> 1, vcalls |-> c.vcalls, bcall |-> op]
            ELSE [slot |-> Slot("Error", "-", c.res.err, 0), seed |-> c.seed,
                  ret |-> Err(DeserializeErrorFrom("Error")), bres |-> c.res,
                  calls |-> 1, vcalls |-> c.vcalls, bcall |-> op]
              : c \in {CursorCall(op, a, inp, sd)}} : TRUE
    ELSE [slot |-> a, seed |-> sd, ret |-> Err(DeserializeErrorFrom(notready)),
          bres |-> NoRes, calls |-> 0, vcalls |-> 0, bcall |-> "-"]

\* size_hint of the wrapped cursor: the calls left in its script
Cursor_size_hint(a, inp) ==
    "Some(" \o ToString(Len(inp.script) - a.n) \o ")"

\* dyn_size_hint that forgets the cursor's hint once elements were taken
dyn_size_hint_fresh(a, holding, inp) ==
    IF a.tag = holding /\ a.n = 0 THEN Cursor_size_hint(a, inp) ELSE "None"

\* SeqAccess::dyn_size_hint and MapAccess::dyn_size_hint: holding is the
\* variant that holds the cursor
dyn_size_hint(a, holding, inp) ==
    IF a.tag = holding THEN Cursor_size_hint(a, inp) ELSE "None"

\* SeqAccess::dyn_next_element on the InplaceSeqAccess
SeqAccess_next(a, inp, sd) ==
    next_with(a, "SeqAccess", "NotSeqAccess", "next_element", inp, sd)

\* MapAccess::dyn_next_key, dyn_next_value, dyn_next_entry on the InplaceMapAccess
MapAccess_next(a, op, inp, sd) ==
    next_with(a, "MapAccess", "NotMapAccess", op, inp, sd)

\* serde::de::SeqAccess for &mut dyn SeqAccess: next_element_seed with the seed
\* of the target type, on the InplaceSeqAccess a
SeqAccess_next_element_seed(a, inp) ==
    CHOOSE x \in
        {[slot |-> r.slot, ret |-> Seed_into_result_option(r.seed, r.ret),
          bres |-> r.bres, calls |-> r.calls, vcalls |-> r.vcalls, bcall |-> r.bcall]
           : r \in {SeqAccess_next(a, inp, NewSeed(inp.target))}} : TRUE

\* serde::de::MapAccess for &mut dyn MapAccess: next_key_seed and
\* next_value_seed with the seed of the target type, on the InplaceMapAccess a
MapAccess_next_seed(a, op, inp) ==
    CHOOSE x \in
        {[slot |-> r.slot,
          ret |-> IF op = "next_value" THEN Seed_into_result(r.seed, r.ret)
                  ELSE Seed_into_result_option(r.seed, r.ret),
          bres |-> r.bres, calls |-> r.calls, vcalls |-> r.vcalls, bcall |-> r.bcall]
           : r \in {MapAccess_next(a, op, inp, NewSeed(inp.target))}} : TRUE

\* the wrapped cursor's next_entry_seed with the two seeds of the glue: the key
\* holds the datum kd; a cursor that reads on (readon) hands the value to its
\* seed although the key failed, and reports the key's error
Cursor_next_entry_seed(a, inp, kd, readon) ==
    CASE CursorOutcome(a, inp) = "none" ->
           [res |-> Ok("none"), kseed |-> NewSeed(inp.target),
            vseed |-> NewSeed(inp.target), vcalls |-> 0]
      [] CursorOutcome(a, inp) = "err" ->
           [res |-> Err(BackendError("cursor")), kseed |-> NewSeed(inp.target),
            vseed |-> NewSeed(inp.target), vcalls |-> 0]
      [] OTHER ->
           CHOOSE x \in
             {IF k.ret.ok
              THEN [res |-> IF ~v.ret.ok THEN v.ret
                            ELSE IF CursorOutcome(a, inp) = "late"
                            THEN Err(BackendError("cursor"))
                            ELSE Ok("some"),
                    kseed |-> k.seed, vseed |-> v.seed, vcalls |-> k.vcalls + v.vcalls]
              ELSE IF readon
              THEN [res |-> k.ret, kseed |-> k.seed, vseed |-> v.seed,
                    vcalls |-> k.vcalls + v.vcalls]
              ELSE [res |-> k.ret, kseed |-> k.seed, vseed |-> NewSeed(inp.target),
                    vcalls |-> k.vcalls]
                : k \in {DeserializeSeed_deserialize(NewSeed(inp.target),
                                                     [inp EXCEPT !.datum = kd])},
                  v \in {DeserializeSeed_deserialize(NewSeed(inp.target), inp)}} : TRUE

\* MapAccess::dyn_next_entry(&mut kseed, &mut vseed) on the InplaceMapAccess
MapAccess_dyn_next_entry(a, inp, kd, readon) ==
    IF a.tag = "MapAccess"
    THEN CHOOSE x \in
           {IF c.res.ok
            THEN [slot |-> CursorAdvance(a, inp), kseed |-> c.kseed, vseed |-> c.vseed,
                  ret |-> c.res, bres |-> c.res, calls |-> 1, vcalls |-> c.vcalls,
                  bcall |-> "next_entry"]
            ELSE [slot |-> Slot("Error", "-", c.res.err, 0), kseed |-> c.kseed,
                  vseed |-> c.vseed, ret |-> Err(DeserializeErrorFrom("Error")),
                  bres |-> c.res, calls |-> 1, vcalls |-> c.vcalls,
                  bcall |-> "next_entry"]
              : c \in {Cursor_next_entry_seed(a, inp, kd, readon)}} : TRUE
    ELSE [slot |-> a, kseed |-> NewSeed(inp.target), vseed |-> NewSeed(inp.target),
          ret |-> Err(DeserializeErrorFrom("NotMapAccess")),
          bres |-> NoRes, calls |-> 0, vcalls |-> 0, bcall |-> "-"]

\* the closure of next_entry_seed that pairs the value with the key: a value
\* whose key seed holds no value is the unreachable!() arm
MapAccess_pair(kseed, v) ==
    IF ~v.ok \/ v.val = "none" THEN v
    ELSE IF kseed.tag = "Value" THEN v
    ELSE Panic

\* serde::de::MapAccess for &mut dyn MapAccess: next_entry_seed with the seeds
\* of the target type; the value seed and the result decide what is returned
MapAccess_next_entry_seed(a, inp, kd, readon) ==
    CHOOSE x \in
        {[slot |-> r.slot,
          ret |-> MapAccess_pair(r.kseed, Seed_into_result_option(r.vseed, r.ret)),
          bres |-> r.bres, calls |-> r.calls, vcalls |-> r.vcalls, bcall |-> r.bcall]
           : r \in {MapAccess_dyn_next_entry(a, inp, kd, readon)}} : TRUE

(* -------------------------- InplaceEnumAccess -------------------------- *)
\* InplaceEnumAccess::EnumAccess(a)
NewEnumAccess == Slot("EnumAccess", "A", NoErr, 0)

\* the payload methods of trait VariantAccess
Payloads == {"unit_variant", "newtype_variant", "tuple_variant", "struct_variant"}

\* the wrapped cursor's variant_seed: the variant name is deserialized by the
\* erased seed; bok is the cursor's own outcome
Cursor_variant(inp, sd, bok) ==
    IF ~bok THEN [res |-> Err(BackendError("cursor")), vcalls |-> 0]
    ELSE CHOOSE x \in
           {[res |-> IF g.ret.ok THEN Ok("variant") ELSE g.ret, vcalls |-> g.vcalls]
              : g \in {DeserializeSeed_deserialize(sd, inp)}} : TRUE

\* dyn_variant that drops the cursor's error instead of storing it
EnumAccess_dyn_variant_drop(a, inp, sd, bok) ==
    IF a.tag = "EnumAccess"
    THEN CHOOSE x \in
           {IF c.res.ok
            THEN [slot |-> Slot("VariantAccess", "A", NoErr, 0), ret |-> Ok("variant"),
                  bres |-> c.res, calls |-> 1, vcalls |-> c.vcalls,
                  bcall |-> "variant_seed"]
            ELSE [slot |-> None,
                  ret |-> Err(DeserializeErrorFrom("Error")), bres |-> c.res,
                  calls |-> 1, vcalls |-> c.vcalls, bcall |-> "variant_seed"]
              : c \in {Cursor_variant(inp, sd, bok)}} : TRUE
    ELSE [slot |-> a, ret |-> Err(DeserializeErrorFrom("NotEnumAccess")),
          bres |-> NoRes, calls |-> 0, vcalls |-> 0, bcall |-> "-"]

\* EnumAccess::dyn_variant on the InplaceEnumAccess
EnumAccess_dyn_variant(a, inp, sd, bok) ==
    IF a.tag = "EnumAccess"
    THEN CHOOSE x \in
           {IF c.res.ok
            THEN [slot |-> Slot("VariantAccess", "A", NoErr, 0), ret |-> Ok("variant"),
                  bres |-> c.res, calls |-> 1, vcalls |-> c.vcalls,
                  bcall |-> "variant_seed"]
            ELSE [slot |-> Slot("Error", "-", c.res.err, 0),
                  ret |-> Err(DeserializeErrorFrom("Error")), bres |-> c.res,
                  calls |-> 1, vcalls |-> c.vcalls, bcall |-> "variant_seed"]
              : c \in {Cursor_variant(inp, sd, bok)}} : TRUE
    ELSE [slot |-> a, ret |-> Err(DeserializeErrorFrom("NotEnumAccess")),
          bres |-> NoRes, calls |-> 0, vcalls |-> 0, bcall |-> "-"]

\* the wrapped variant cursor's payload method: a newtype payload goes to an
\* erased seed, a tuple or struct payload to an erased visitor
Cursor_payload(p, inp, bok) ==
    IF ~bok THEN [res |-> Err(BackendError("cursor")), vcalls |-> 0]
    ELSE CASE p = "unit_variant" -> [res |-> Ok("()"), vcalls |-> 0]
           [] p = "newtype_variant" ->
                CHOOSE x \in
                  {[res |-> g.ret, vcalls |-> g.vcalls]
                     : g \in {DeserializeSeed_deserialize(NewSeed(inp.target), inp)}} : TRUE
           [] OTHER ->
                CHOOSE x \in
                  {[res |-> v.ret, vcalls |-> v.vcalls]
                     : v \in {Visitor_visit(NewVisitor(inp.target),
                                            IF p = "tuple_variant" THEN "seq" ELSE "map")}} : TRUE

\* next_variant_with that borrows the variant cursor instead of taking it
next_variant_with_keep(a, p, inp, bok) ==
    IF a.tag = "VariantAccess"
    THEN CHOOSE x \in
           {IF c.res.ok
            THEN [slot |-> a, ret |-> Ok("()"), bres |-> c.res, calls |-> 1,
                  vcalls |-> c.vcalls, bcall |-> p]
            ELSE [slot |-> Slot("Error", "-", c.res.err, 0),
                  ret |-> Err(DeserializeErrorFrom("Error")), bres |-> c.res,
                  calls |-> 1, vcalls |-> c.vcalls, bcall |-> p]
              : c \in {Cursor_payload(p, inp, bok)}} : TRUE
    ELSE [slot |-> a, ret |-> Err(DeserializeErrorFrom("NotVariantAccess")),
          bres |-> NoRes, calls |-> 0, vcalls |-> 0, bcall |-> "-"]

\* InplaceEnumAccess::next_variant_with, for the payload method p
next_variant_with(a, p, inp, bok) ==
    IF a.tag = "VariantAccess"
    THEN CHOOSE x \in
           {IF c.res.ok
            THEN [slot |-> None, ret |-> Ok("()"), bres |-> c.res, calls |-> 1,
                  vcalls |-> c.vcalls, bcall |-> p]
            ELSE [slot |-> Slot("Error", "-", c.res.err, 0),
                  ret |-> Err(DeserializeErrorFrom("Error")), bres |-> c.res,
                  calls |-> 1, vcalls |-> c.vcalls, bcall |-> p]
              : c \in {Cursor_payload(p, inp, bok)}} : TRUE
    ELSE [slot |-> a, ret |-> Err(DeserializeErrorFrom("NotVariantAccess")),
          bres |-> NoRes, calls |-> 0, vcalls |-> 0, bcall |-> "-"]

\* the seed after the wrapped cursor's variant_seed
Cursor_variant_seed(inp, sd, bok) ==
    IF ~bok THEN sd ELSE (DeserializeSeed_deserialize(sd, inp)).seed

\* serde::de::EnumAccess for &mut dyn EnumAccess: variant_seed with the seed of
\* the target type; Ok without a value in the seed is the unreachable!() arm
EnumAccess_variant_seed(a, inp, bok) ==
    CHOOSE x \in
        {[slot |-> r.slot,
          ret |-> IF ~r.ret.ok THEN Err(DeserializeErrorFrom(r.ret.err.code))
                  ELSE IF sd.tag = "Value" THEN Ok(sd.val)
                  ELSE Panic,
          bres |-> r.bres, calls |-> r.calls, vcalls |-> r.vcalls, bcall |-> r.bcall]
           : r \in {EnumAccess_dyn_variant(a, inp, NewSeed(inp.target), bok)},
             sd \in {IF a.tag = "EnumAccess"
                     THEN Cursor_variant_seed(inp, NewSeed(inp.target), bok)
                     ELSE NewSeed(inp.target)}} : TRUE

(* -------------------------- InplaceSerializer -------------------------- *)
\* Display for InplaceSerializeError
InplaceSerializeErrorDisplay(c) ==
    CASE c = "Error" -> "the in-place serialization has done unsuccessfually"
      [] c = "NotSerializer" -> "the in-place serializer is not ready"
      [] c = "NotSerializeSeq" -> "the in-place serializer is not ready to serialize the content of the sequence"
      [] c = "NotSerializeTuple" -> "the in-place serializer is not ready to serialize the content of the tuple"
      [] c = "NotSerializeTupleStruct" -> "the in-place serializer is not ready to serialize the content of the tuple struct"
      [] c = "NotSerializeTupleVariant" -> "the in-place serializer is not ready to serialize the content of the tuple variant"
      [] c = "NotSerializeMap" -> "the in-place serializer is not ready to serialize the content of the map"
      [] c = "NotSerializeStruct" -> "the in-place serializer is not ready to serialize the content of the struct"
      [] c = "NotSerializeStructVariant" -> "the in-place serializer is not ready to serialize the content of the struct variant"

\* SerializeError(Err(code)): From<InplaceSerializeError>
SerializeErrorFrom(c) == [code |-> c, msg |-> "-"]

\* SerializeError(Ok(msg)): serde::ser::Error::custom
SerializeErrorCustom(m) == [code |-> "Custom", msg |-> m]

\* SerializeError::into_error: the backend's custom error of the Display text
SerializeErrorIntoError(e) ==
    [code |-> "BackendCustom",
     msg |-> IF e.code = "Custom" THEN e.msg ELSE InplaceSerializeErrorDisplay(e.code)]

\* the terminal methods of trait Serializer
SerPrims ==
    {"bool", "i8", "i16", "i32", "i64", "i128", "u8", "u16", "u32", "u64",
     "u128", "f32", "f64", "char", "str", "bytes", "none", "some", "unit",
     "unit_struct", "unit_variant", "newtype_struct", "newtype_variant",
     "collect_str"}

\* the composite-begin methods of trait Serializer
SerBegins ==
    {"seq", "tuple", "tuple_struct", "tuple_variant", "map", "struct",
     "struct_variant"}

\* the methods that hand a nested value to the backend
TakesValue == {"some", "newtype_struct", "newtype_variant"}

\* the variant of InplaceSerializer that holds the builder of a shape
BuilderTag(b) ==
    CASE b = "seq" -> "SerializeSeq"
      [] b = "tuple" -> "SerializeTuple"
      [] b = "tuple_struct" -> "SerializeTupleStruct"
      [] b = "tuple_variant" -> "SerializeTupleVariant"
      [] b = "map" -> "SerializeMap"
      [] b = "struct" -> "SerializeStruct"
      [] b = "struct_variant" -> "SerializeStructVariant"

BuilderTags == {BuilderTag(b) : b \in SerBegins}

\* the element operations of each builder trait
ElemOps(b) ==
    CASE b \in {"seq", "tuple"} -> {"element"}
      [] b \in {"tuple_struct", "tuple_variant"} -> {"field"}
      [] b = "map" -> {"key", "value", "entry"}
      [] b \in {"struct", "struct_variant"} -> {"field", "skip_field"}

\* the name of a builder method, as recorded for a call
BuilderOp(b, e) == b \o "." \o e

\* <dyn Serializer>::new
NewSerializer == Slot("Serializer", "S", NoErr, 0)

\* take that hands out a serializer whatever the slot holds
take_unchecked(s) == Ok("S")

\* InplaceSerializer::take
take(s) ==
    IF s.tag = "Serializer" THEN Ok("S") ELSE Err(SerializeErrorFrom("NotSerializer"))

\* InplaceSerializer::take_seq .. take_struct_variant
take_builder(s, b) ==
    IF s.tag = BuilderTag(b) THEN Ok("S")
    ELSE Err(SerializeErrorFrom("Not" \o BuilderTag(b)))

\* get_seq .. get_struct_variant that lend out whatever builder the slot holds
get_builder_any(s, b) ==
    IF s.tag \in BuilderTags THEN Ok("S")
    ELSE Err(SerializeErrorFrom("Not" \o BuilderTag(b)))

\* InplaceSerializer::get_seq .. get_struct_variant
get_builder(s, b) ==
    IF s.tag = BuilderTag(b) THEN Ok("S")
    ELSE Err(SerializeErrorFrom("Not" \o BuilderTag(b)))

\* serialize_with that empties the slot before it looks at what take returned
serialize_with_eager(s, taken, then, bres) ==
    IF ~taken.ok
    THEN [slot |-> None, ret |-> taken, bres |-> NoRes, calls |-> 0]
    ELSE IF bres.ok
    THEN [slot |-> IF then = "Ok" THEN Slot("Ok", bres.val, NoErr, 0)
                   ELSE Slot(then, "S", NoErr, 0),
          ret |-> Ok("()"), bres |-> bres, calls |-> 1]
    ELSE [slot |-> Slot("Error", "-", bres.err, 0),
          ret |-> Err(SerializeErrorFrom("Error")), bres |-> bres, calls |-> 1]

\* InplaceSerializer::serialize_with: taken is the result of take, then the
\* variant built from the backend's Ok, bres the result of the backend call
serialize_with(s, taken, then, bres) ==
    IF ~taken.ok
    THEN [slot |-> s, ret |-> taken, bres |-> NoRes, calls |-> 0]
    ELSE IF bres.ok
    THEN [slot |-> IF then = "Ok" THEN Slot("Ok", bres.val, NoErr, 0)
                   ELSE Slot(then, "S", NoErr, 0),
          ret |-> Ok("()"), bres |-> bres, calls |-> 1]
    ELSE [slot |-> Slot("Error", "-", bres.err, 0),
          ret |-> Err(SerializeErrorFrom("Error")), bres |-> bres, calls |-> 1]

\* serialize_with_mut that moves the builder out of the slot when it succeeds
serialize_with_mut_taken(s, got, bres) ==
    IF ~got.ok
    THEN [slot |-> s, ret |-> got, bres |-> NoRes, calls |-> 0]
    ELSE IF bres.ok
    THEN [slot |-> None, ret |-> Ok("()"), bres |-> bres, calls |-> 1]
    ELSE [slot |-> Slot("Error", "-", bres.err, 0),
          ret |-> Err(SerializeErrorFrom("Error")), bres |-> bres, calls |-> 1]

\* serialize_with_mut that leaves the builder in the slot when the backend fails
serialize_with_mut_keep(s, got, bres) ==
    IF ~got.ok
    THEN [slot |-> s, ret |-> got, bres |-> NoRes, calls |-> 0]
    ELSE IF bres.ok
    THEN [slot |-> [s EXCEPT !.n = @ + 1], ret |-> Ok("()"), bres |-> bres,
          calls |-> 1]
    ELSE [slot |-> s, ret |-> Err(SerializeErrorFrom("Error")), bres |-> bres,
          calls |-> 1]

\* InplaceSerializer::serialize_with_mut: the builder stays in the slot
serialize_with_mut(s, got, bres) ==
    IF ~got.ok
    THEN [slot |-> s, ret |-> got, bres |-> NoRes, calls |-> 0]
    ELSE IF bres.ok
    THEN [slot |-> [s EXCEPT !.n = @ + 1], ret |-> Ok("()"), bres |-> bres,
          calls |-> 1]
    ELSE [slot |-> Slot("Error", "-", bres.err, 0),
          ret |-> Err(SerializeErrorFrom("Error")), bres |-> bres, calls |-> 1]

\* dyn_is_human_readable that answers false when it holds no serializer
Serializer_dyn_is_human_readable_false(s, inp) ==
    IF s.tag = "Serializer" THEN Backend_is_human_readable(inp) ELSE "false"

\* Serializer::dyn_is_human_readable on the InplaceSerializer
Serializer_dyn_is_human_readable(s, inp) ==
    IF s.tag = "Serializer" THEN Backend_is_human_readable(inp) ELSE "true"

\* the dyn_serialize_* method each serialize_* of the glue calls; i128, u128 and
\* collect_str are serde's provided methods
GlueSer(m) ==
    CASE m \in {"i128", "u128"} -> "-"
      [] m = "collect_str" -> "str"
      [] OTHER -> m

\* the match that ends serde::Serialize for dyn Serialize: s is the adapter
\* after the value's dyn_serialize, result what dyn_serialize returned;
\* unwrap_err() of an Ok result panics
Serialize_serialize_match(s, result) ==
    CASE s.tag = "Ok" -> Ok(s.val)
      [] s.tag = "Error" -> Err(s.err)
      [] OTHER -> IF result.ok THEN Panic
                  ELSE Err(SerializeErrorIntoError(result.err))

RECURSIVE Serialize_dyn_serialize(_, _, _)

\* serde::Serialize for dyn Serialize: a value serialized into a backend
\* through a fresh adapter; bok is the backend's own outcome
Serialize_serialize(value, bok) ==
    CHOOSE x \in
        {Serialize_serialize_match(r.slot, r.ret)
           : r \in {Serialize_dyn_serialize(NewSerializer, value, bok)}} : TRUE

\* the wrapped backend's method m: a method that takes a nested value
\* serializes it into the backend first; bok is the backend's own outcome
Backend_serialize(m, value, bok) ==
    LET nested == IF m \in TakesValue THEN Serialize_serialize(value, bok) ELSE Ok("()")
    IN IF ~nested.ok THEN nested
       ELSE IF bok THEN Ok(m) ELSE Err(BackendError("io"))

\* Serializer::dyn_serialize_m on the InplaceSerializer
Serializer_dyn_serialize(s, m, value, bok) ==
    LET r == serialize_with(s, take(s),
                 IF m \in SerBegins THEN BuilderTag(m) ELSE "Ok",
                 Backend_serialize(m, value, bok))
    IN [slot |-> r.slot, ret |-> r.ret, bres |-> r.bres, calls |-> r.calls,
        vcalls |-> 0, bcall |-> IF r.calls = 1 THEN m ELSE "-"]

\* serde::Serializer for &mut dyn Serializer: serialize_m
Serializer_serialize(s, m, value, bok) ==
    IF GlueSer(m) = "-"
    THEN [slot |-> s, ret |-> Err(SerializeErrorCustom("i128 is not supported")),
          bres |-> NoRes, calls |-> 0, vcalls |-> 0, bcall |-> "-"]
    ELSE Serializer_dyn_serialize(s, GlueSer(m), value, bok)

\* Serialize::dyn_serialize of a value on the adapter s: its serde::Serialize
\* impl calls the methods the value lists, outermost first; a checked value
\* makes its call and returns an error of its own after the call succeeded
Serialize_dyn_serialize(s, value, bok) ==
    IF Head(value) = "checked"
    THEN CHOOSE x \in
           {[r EXCEPT !.ret = IF r.ret.ok THEN Err(SerializeErrorCustom("checked"))
                               ELSE r.ret]
              : r \in {Serializer_serialize(s, value[2], Tail(Tail(value)), bok)}} : TRUE
    ELSE Serializer_serialize(s, Head(value), Tail(value), bok)

\* the wrapped builder's element method: it serializes the element the same way
Backend_element(value, bok) ==
    LET nested == Serialize_serialize(value, bok)
    IN IF ~nested.ok THEN nested
       ELSE IF bok THEN Ok("()") ELSE Err(BackendError("io"))

\* SerializeSeq::dyn_serialize_element .. SerializeStructVariant::dyn_skip_field
Builder_dyn_element(s, b, e, value, bok) ==
    LET r == serialize_with_mut(s, get_builder(s, b),
                 IF e = "skip_field"
                 THEN (IF bok THEN Ok("()") ELSE Err(BackendError("io")))
                 ELSE Backend_element(value, bok))
    IN [slot |-> r.slot, ret |-> r.ret, bres |-> r.bres, calls |-> r.calls,
        vcalls |-> 0, bcall |-> IF r.calls = 1 THEN BuilderOp(b, e) ELSE "-"]

\* SerializeSeq::dyn_end .. SerializeStructVariant::dyn_end
Builder_dyn_end(s, b, bok) ==
    LET r == serialize_with(s, take_builder(s, b), "Ok",
                 IF bok THEN Ok(b) ELSE Err(BackendError("io")))
    IN [slot |-> r.slot, ret |-> r.ret, bres |-> r.bres, calls |-> r.calls,
        vcalls |-> 0, bcall |-> IF r.calls = 1 THEN BuilderOp(b, "end") ELSE "-"]

\* the same backend driven directly by the value's Serialize impl
Direct_serialize(m, bok) ==
    IF bok THEN Ok(m) ELSE Err(BackendError("io"))

(* ------------------------------ the runs ------------------------------- *)
\* the record of the last call: the method (op) and the adapter it was called
\* on, the slots before it, its result, the wrapped backend's result and the
\* method of it that ran (bcall), how often the wrapped backend or cursor (calls)
\* and the wrapped visitor or seed (vcalls) ran, and the direct path's result;
\* cnt counts the calls of the wrapped backend or cursor, of the wrapped visitor
\* or seed, and of the enum cursor's variant_seed and payload methods
Call(op, on, pre, prearg, r, direct) ==
    [op |-> op, on |-> on, pre |-> pre, prearg |-> prearg, ret |-> r.ret,
     bres |-> r.bres, calls |-> r.calls, vcalls |-> r.vcalls, bcall |-> r.bcall,
     direct |-> direct]

NoCall ==
    [op |-> "-", on |-> "-", pre |-> None, prearg |-> None, ret |-> NoRes,
     bres |-> NoRes, calls |-> 0, vcalls |-> 0, bcall |-> "-", direct |-> NoRes]

Min(a, b) == IF a < b THEN a ELSE b

\* the calls that reached the wrapped objects so far, counted up to MaxCount
Count(c, r) ==
    [c EXCEPT !.backend = Min(@ + r.calls, MaxCount),
              !.visitor = Min(@ + r.vcalls, MaxCount),
              !.variant = Min(@ + (IF r.bcall = "variant_seed" THEN 1 ELSE 0), MaxCount),
              !.payload = Min(@ + (IF r.bcall \in Payloads THEN 1 ELSE 0), MaxCount)]

NoCount == [backend |-> 0, visitor |-> 0, variant |-> 0, payload |-> 0]

\* an input of a decoding run: the backend's format, the datum it holds, whether
\* the backend finds unconsumed data after the visit (trail), the target type,
\* and the script of the outcomes a wrapped cursor reports
Input(f, d, tr, t) ==
    [fmt |-> f, datum |-> d, trail |-> tr, target |-> t, script |-> <<>>]

Inputs ==
    {Input("described", "bool", FALSE, "bool"),
     Input("described", "int", FALSE, "i128"),
     Input("described", "int", FALSE, "bool"),
     Input("described", "seq", FALSE, "value"),
     Input("described", "seq", TRUE, "value"),
     Input("positional", "int", FALSE, "bool"),
     Input("positional", "int", FALSE, "i128"),
     Input("positional", "int", TRUE, "value")}

\* the scripts of a wrapped cursor
Scripts == UNION {[1..n -> Outcomes] : n \in 0..MaxScript}

\* the inputs of a run over a sequence, map or enum cursor: the elements are
\* decoded from the datum into the target type
AccessInputs ==
    {[i EXCEPT !.script = sc] :
        i \in {Input("described", "seq", FALSE, "value"),
               Input("described", "bool", FALSE, "bool"),
               Input("described", "int", FALSE, "bool"),
               Input("described", "seq", TRUE, "value")},
        sc \in Scripts}

\* the default input of the runs that decode nothing
NoInput == Input("described", "bool", FALSE, "bool")

\* the backends of the encoding runs: a human-readable and a binary format
SerInputs == {NoInput, Input("positional", "bool", FALSE, "bool")}

\* the nested values handed to the backend as &dyn Serialize: the methods
\* their Serialize impls call, and one that fails a check of its own after
\* its call
NestedValues == {<<"bool">>, <<"i128">>, <<"checked", "bool">>}

(* --------------------------- the Error carrier ------------------------- *)
\* most names in the expected list of an unknown_variant or unknown_field
MaxExpected == 3
\* deepest nesting of the data an erased call works on
MaxDepth == 2

\* the backquote character of the texts
Tick == "^"

\* the constructors of serde::de::Error, which Error implements
ErrorKinds ==
    {"custom", "invalid_type", "invalid_value", "invalid_length",
     "unknown_variant", "unknown_field", "missing_field", "duplicate_field"}

\* the arguments of a constructor: text is the message, the variant or the
\* field; unexp is a de::Unexpected as <<variant, payload>>; exp is what the
\* &dyn Expected displays; the fields a constructor does not take keep these
NoArgs ==
    [text |-> "-", unexp |-> <<"-", "-">>, exp |-> "-", len |-> 0,
     expected |-> <<>>]

\* the arguments the constructor of kind k is called with in the runs
ArgsOf(k) ==
    LET names == <<"a", "b", "c", "d", "e">>
        unexps == {<<"Bool", "true">>, <<"Str", "x">>, <<"Unit", "">>}
    IN CASE k \in {"custom", "ser::custom"} ->
              {[NoArgs EXCEPT !.text = m] : m \in {"boom", "eof"}}
         [] k \in {"invalid_type", "invalid_value"} ->
              {[NoArgs EXCEPT !.unexp = u, !.exp = "a map"] : u \in unexps}
         [] k = "invalid_length" ->
              {[NoArgs EXCEPT !.len = n, !.exp = "a pair"] : n \in {0, MaxExpected}}
         [] k \in {"unknown_variant", "unknown_field"} ->
              {[NoArgs EXCEPT !.text = "x", !.expected = [i \in 1..n |-> names[i]]]
                  : n \in 0..MaxExpected}
         [] OTHER -> {[NoArgs EXCEPT !.text = f] : f \in {"id", "name"}}

\* From<de::Unexpected> for Unexpected, and back: variant by variant, the
\* borrowed payload boxed and borrowed again
Unexpected_from(u) ==
    CASE u[1] = "Bool" -> <<"Bool", u[2]>>
      [] u[1] = "Str" -> <<"Str", u[2]>>
      [] u[1] = "Unit" -> <<"Unit", "">>
      [] OTHER -> u

\* Display for Unexpected
Unexpected_Display(u) ==
    CASE u[1] = "Bool" -> "boolean " \o Tick \o u[2] \o Tick
      [] u[1] = "Str" -> "string \"" \o u[2] \o "\""
      [] u[1] = "Unit" -> "unit value"
      [] OTHER -> u[2]

\* what an Error holds: an ErrorCode, None ("None"), or the marker Repr
\* ("Repr"); NoCode stands for an Error not yet built or already moved
Code(c, a) == [code |-> c, args |-> a]
NoCode == Code("-", NoArgs)

\* the text of the marker, and of an Error that holds no ErrorCode
GenericText == "an error occurred during dynamic (de)serialization"

\* constructors of the marker Repr that keep their arguments
Repr_new_keep(feature, k, a) == Code(IF feature THEN k ELSE "Repr", a)

\* de::Error for Repr: the constructor k on the arguments a; with the feature
\* `error` the ErrorCode is boxed, without it every constructor returns Repr
Repr_new(feature, k, a) ==
    IF ~feature THEN Code("Repr", NoArgs)
    ELSE CASE k = "custom" -> Code("Custom", [NoArgs EXCEPT !.text = a.text])
           [] k = "invalid_type" ->
                Code("InvalidType",
                     [NoArgs EXCEPT !.unexp = Unexpected_from(a.unexp), !.exp = a.exp])
           [] k = "invalid_value" ->
                Code("InvalidValue",
                     [NoArgs EXCEPT !.unexp = Unexpected_from(a.unexp), !.exp = a.exp])
           [] k = "invalid_length" ->
                Code("InvalidLength", [NoArgs EXCEPT !.len = a.len, !.exp = a.exp])
           [] k = "unknown_variant" ->
                Code("UnknownVariant",
                     [NoArgs EXCEPT !.text = a.text, !.expected = a.expected])
           [] k = "unknown_field" ->
                Code("UnknownField",
                     [NoArgs EXCEPT !.text = a.text, !.expected = a.expected])
           [] k = "missing_field" ->
                Code("MissingField", [NoArgs EXCEPT !.text = a.text])
           [] OTHER -> Code("DuplicateField", [NoArgs EXCEPT !.text = a.text])

\* de::Error, ser::Error and Default for Error: the constructor k builds the
\* Repr; invalid_value calls Repr::invalid_type
Error_new(feature, k, a) ==
    CASE k = "invalid_value" -> Repr_new(feature, "invalid_type", a)
      [] k = "ser::custom" -> Repr_new(feature, "custom", a)
      [] k = "default" -> IF feature THEN Code("None", NoArgs) ELSE Code("Repr", NoArgs)
      [] OTHER -> Repr_new(feature, k, a)

\* Display for the error type E of a backend, built by the constructor k of E on
\* the arguments a: E implements custom and keeps the message, as
\* DeserializeError does, and has the provided constructors of serde::de::Error
Backend_Display(k, a) ==
    LET OneOf[i \in 0..Len(a.expected)] ==
            IF i = 0 THEN ""
            ELSE OneOf[i - 1] \o (IF i = 1 THEN "" ELSE ", ")
                   \o Tick \o a.expected[i] \o Tick
        expected ==
            CASE Len(a.expected) = 1 -> Tick \o a.expected[1] \o Tick
              [] Len(a.expected) = 2 ->
                   Tick \o a.expected[1] \o Tick \o " or " \o Tick \o a.expected[2] \o Tick
              [] OTHER -> "one of " \o OneOf[Len(a.expected)]
    IN CASE k = "custom" -> a.text
         [] k = "invalid_type" ->
              "invalid type: " \o Unexpected_Display(a.unexp) \o ", expected " \o a.exp
         [] k = "invalid_value" ->
              "invalid value: " \o Unexpected_Display(a.unexp) \o ", expected " \o a.exp
         [] k = "invalid_length" ->
              "invalid length " \o ToString(a.len) \o ", expected " \o a.exp
         [] k = "unknown_variant" ->
              IF a.expected = <<>>
              THEN "unknown variant " \o Tick \o a.text \o Tick \o ", there are no variants"
              ELSE "unknown variant " \o Tick \o a.text \o Tick \o ", expected " \o expected
         [] k = "unknown_field" ->
              IF a.expected = <<>>
              THEN "unknown field " \o Tick \o a.text \o Tick \o ", there are no fields"
              ELSE "unknown field " \o Tick \o a.text \o Tick \o ", expected " \o expected
         [] k = "missing_field" -> "missing field " \o Tick \o a.text \o Tick
         [] OTHER -> "duplicate field " \o Tick \o a.text \o Tick

\* the error E::k(a) of a backend: the constructor invoked, its arguments and
\* the text it displays
BackendErrorOf(k, a) == [kind |-> k, args |-> a, text |-> Backend_Display(k, a)]
NoBackendError == [kind |-> "-", args |-> NoArgs, text |-> "-"]

\* Display for Repr (and for Error, which hands over to it)
Repr_Display(r) ==
    LET a == r.args
        Rest[i \in 1..Len(a.expected)] ==
            IF i = 1 THEN "" ELSE Rest[i - 1] \o ", " \o Tick \o a.expected[i] \o Tick
        names ==
            CASE Len(a.expected) = 0 -> "there are no variants"
              [] Len(a.expected) = 1 -> "expected " \o Tick \o a.expected[1] \o Tick
              [] Len(a.expected) = 2 ->
                   "expected " \o Tick \o a.expected[1] \o Tick \o " or " \o Tick \o a.expected[2] \o Tick
              [] OTHER ->
                   "expected one of " \o Tick \o a.expected[1] \o Tick
                     \o Rest[Len(a.expected)]
    IN CASE r.code = "Repr" \/ r.code = "None" -> GenericText
         [] r.code = "Custom" -> "Custom(\"" \o a.text \o "\")"
         [] r.code = "InvalidType" ->
              "invalid type: " \o Unexpected_Display(a.unexp) \o ", expected " \o a.exp
         [] r.code = "InvalidValue" ->
              "invalid value: " \o Unexpected_Display(a.unexp) \o ", expected " \o a.exp
         [] r.code = "InvalidLength" ->
              "invalid length: " \o ToString(a.len) \o ", expected " \o a.exp
         [] r.code = "UnknownVariant" ->
              "unknown variant: " \o a.text \o ", " \o names
         [] r.code = "UnknownField" ->
              "unknown field: " \o a.text \o ", " \o names
         [] r.code = "MissingField" -> "missing field " \o Tick \o a.text \o Tick
         [] OTHER -> "duplicate field " \o Tick \o a.text \o Tick

\* Repr::into_de_error::<E>: the constructor of E it calls; the marker Repr
\* and the Error without an ErrorCode call E::custom with the generic text
Repr_into_de_error(r) ==
    CASE r.code = "Repr" ->
           BackendErrorOf("custom", [NoArgs EXCEPT !.text = Repr_Display(r)])
      [] r.code = "None" -> BackendErrorOf("custom", [NoArgs EXCEPT !.text = GenericText])
      [] r.code = "Custom" -> BackendErrorOf("custom", r.args)
      [] r.code = "InvalidType" ->
           BackendErrorOf("invalid_type",
                          [r.args EXCEPT !.unexp = Unexpected_from(r.args.unexp)])
      [] r.code = "InvalidValue" ->
           BackendErrorOf("invalid_value",
                          [r.args EXCEPT !.unexp = Unexpected_from(r.args.unexp)])
      [] r.code = "InvalidLength" -> BackendErrorOf("invalid_length", r.args)
      [] r.code = "UnknownVariant" -> BackendErrorOf("unknown_variant", r.args)
      [] r.code = "UnknownField" -> BackendErrorOf("unknown_field", r.args)
      [] r.code = "MissingField" -> BackendErrorOf("missing_field", r.args)
      [] OTHER -> BackendErrorOf("duplicate_field", r.args)

\* Error::into_ser_error::<E>: E::custom(self), of the text self displays
Error_into_ser_error(r) ==
    BackendErrorOf("custom", [NoArgs EXCEPT !.text = Repr_Display(r)])

\* one run over an Error: whether the feature `error` is enabled, the
\* constructor called and its arguments, the Repr held (NoCode before the
\* construction and after a conversion took the Error), the last operation,
\* the backend error a conversion made, and the text Display wrote
ErrorRun(feature, k, a, r, op, out, text) ==
    [feature |-> feature, kind |-> k, args |-> a, repr |-> r, op |-> op,
     out |-> out, text |-> text]

\* the runs that build no Error
NoErrorRun == ErrorRun(TRUE, "-", NoArgs, NoCode, "-", NoBackendError, "-")

(* ------------------------- nested glue calls --------------------------- *)
\* glue methods that build two adapters each
Adapters_two(g) == 2

\* the adapters a glue method builds on entry and drops when it returns
Adapters(g) ==
    CASE g \in {"deserialize", "tuple_variant", "struct_variant"} -> 1
      [] g \in {"seed_deserialize", "visit_some", "visit_newtype_struct"} -> 1
      [] g \in {"visit_seq", "visit_map", "visit_enum"} -> 1
      [] g \in {"next_element_seed", "next_key_seed", "next_value_seed",
                "variant_seed", "newtype_variant_seed"} -> 1
      [] g = "next_entry_seed" -> 2
      [] g = "serialize" -> 1
      [] OTHER -> 0

\* the glue methods that the wrapped object called by the mirror method of g
\* can call on the erased reference it is handed ("-": the owner of the
\* outermost reference)
MayCall(g) ==
    CASE g = "-" -> {"deserialize", "seed_deserialize", "serialize"}
      [] g = "deserialize" ->
           {"visit", "visit_some", "visit_newtype_struct", "visit_seq",
            "visit_map", "visit_enum"}
      [] g \in {"seed_deserialize", "visit_some", "visit_newtype_struct"} ->
           {"deserialize"}
      [] g = "visit_seq" -> {"next_element_seed"}
      [] g = "visit_map" -> {"next_key_seed", "next_value_seed", "next_entry_seed"}
      [] g = "visit_enum" ->
           {"variant_seed", "unit_variant", "newtype_variant_seed",
            "tuple_variant", "struct_variant"}
      [] g \in {"next_element_seed", "next_key_seed", "next_value_seed",
                "next_entry_seed", "variant_seed", "newtype_variant_seed"} ->
           {"seed_deserialize"}
      [] g = "tuple_variant" -> {"visit_seq"}
      [] g = "struct_variant" -> {"visit_seq", "visit_map"}
      [] g = "serialize" -> {"serialize_element"}
      [] g = "serialize_element" -> {"serialize"}
      [] OTHER -> {}

\* the glue methods that are handed a part of the data by the backend: a
\* deserializer over a nested datum, or a serializer for a nested value
Nested == {"seed_deserialize", "visit_some", "visit_newtype_struct", "serialize"}

InitDe ==
    /\ fam = "de"
    /\ input \in Inputs
    /\ de = NewDeserializer
    /\ vis = NewVisitor(input.target)
    /\ seed = None /\ seq = None /\ map = None /\ enm = None /\ ser = None

InitSeed ==
    /\ fam = "seed"
    /\ input \in Inputs
    /\ de \in {NewDeserializer, None}
    /\ seed = NewSeed(input.target)
    /\ vis = None /\ seq = None /\ map = None /\ enm = None /\ ser = None

InitSeq ==
    /\ fam = "seq"
    /\ input \in AccessInputs
    /\ seq = NewSeqAccess
    /\ seed = NewSeed(input.target)
    /\ de = None /\ vis = None /\ map = None /\ enm = None /\ ser = None

InitMap ==
    /\ fam = "map"
    /\ input \in AccessInputs
    /\ map = NewMapAccess
    /\ seed = NewSeed(input.target)
    /\ de = None /\ vis = None /\ seq = None /\ enm = None /\ ser = None

InitEnum ==
    /\ fam = "enum"
    /\ input \in Inputs
    /\ enm \in {NewEnumAccess, None}
    /\ seed = NewSeed(input.target)
    /\ de = None /\ vis = None /\ seq = None /\ map = None /\ ser = None

InitSer ==
    /\ fam = "ser"
    /\ input \in SerInputs
    /\ ser = NewSerializer
    /\ de = None /\ vis = None /\ seed = None /\ seq = None /\ map = None
    /\ enm = None

\* an erased call not yet begun
InitNest ==
    /\ fam = "nest"
    /\ input = NoInput
    /\ error = NoErrorRun
    /\ de = None /\ vis = None /\ seed = None /\ seq = None /\ map = None
    /\ enm = None /\ ser = None

\* no Error built yet, in a build with or without the feature `error`
InitError ==
    /\ fam = "error"
    /\ input = NoInput
    /\ error \in {ErrorRun(f, "-", NoArgs, NoCode, "-", NoBackendError, "-")
                    : f \in BOOLEAN}
    /\ de = None /\ vis = None /\ seed = None /\ seq = None /\ map = None
    /\ enm = None /\ ser = None

InitCall ==
    /\ last = NoCall
    /\ cnt = NoCount
    /\ stack = <<>>

Init ==
    /\ InitCall
    /\ \/ /\ error = NoErrorRun
          /\ (InitDe \/ InitSeed \/ InitSeq \/ InitMap \/ InitEnum \/ InitSer)
       \/ InitError
       \/ InitNest

\* Deserializer::dyn_deserialize_h(&mut vis) on the InplaceDeserializer
dyn_deserialize(h) ==
    /\ fam = "de"
    /\ \E r \in {deserialize_with(de, input, h, vis)} :
          /\ de' = r.de
          /\ vis' = r.vis
          /\ last' = Call(h, "InplaceDeserializer", de, vis, r, NoRes)
          /\ cnt' = Count(cnt, r)
    /\ UNCHANGED <<stack, error, fam, input, seed, seq, map, enm, ser>>

\* Visitor::dyn_visit_k on the InplaceVisitor
dyn_visit(k) ==
    /\ fam = "de"
    /\ LET r == visit_with(vis, k)
           c == [ret |-> r.ret, bres |-> NoRes, calls |-> 0, vcalls |-> r.vcalls,
                 bcall |-> "-"]
       IN /\ vis' = r.slot
          /\ last' = Call(k, "InplaceVisitor", vis, None, c, NoRes)
          /\ cnt' = Count(cnt, c)
    /\ UNCHANGED <<stack, error, fam, input, de, seed, seq, map, enm, ser>>

\* serde::Deserializer::deserialize_h on &mut dyn Deserializer, as the target
\* type's Deserialize impl calls it
deserialize(h) ==
    /\ fam = "de"
    /\ \E r \in {Deserializer_deserialize(de, input, h, input.target)} :
          /\ de' = r.de
          /\ last' = Call(h, "dyn Deserializer", de, NewVisitor(input.target), r,
                          Direct_deserialize(input, h, input.target))
          /\ cnt' = Count(cnt, r)
    /\ UNCHANGED <<stack, error, fam, input, vis, seed, seq, map, enm, ser>>

\* DeserializeSeed::dyn_deserialize(&mut de) on the InplaceDeserializeSeed
seed_dyn_deserialize ==
    /\ fam = "seed"
    /\ \E r \in {Seed_dyn_deserialize(seed, de, input)} :
          /\ seed' = r.seed
          /\ de' = r.de
          /\ last' = Call("dyn_deserialize", "InplaceDeserializeSeed", seed, de, r, NoRes)
          /\ cnt' = Count(cnt, r)
    /\ UNCHANGED <<stack, error, fam, input, vis, seq, map, enm, ser>>

\* serde::de::DeserializeSeed::deserialize on &mut dyn DeserializeSeed, as a
\* backend calls it with a deserializer of its own over the input; the
\* adapter around that deserializer lives for this call only, so the count of
\* the calls into the backend of the slot de stays
seed_deserialize ==
    /\ fam = "seed"
    /\ \E r \in {DeserializeSeed_deserialize(seed, input)} :
          /\ seed' = r.seed
          /\ last' = Call("deserialize", "dyn DeserializeSeed", seed, NewDeserializer, r, NoRes)
          /\ cnt' = [cnt EXCEPT !.visitor = Min(@ + r.vcalls, MaxCount)]
    /\ UNCHANGED <<stack, error, fam, input, de, vis, seq, map, enm, ser>>

\* the seeds a caller can pass to an access method: the one it holds, or a new
\* one of the target type
SeedArgs == {seed, NewSeed(input.target)}

\* SeqAccess::dyn_next_element(&mut sd) on the InplaceSeqAccess
dyn_next_element(sd) ==
    /\ fam = "seq"
    /\ \E r \in {SeqAccess_next(seq, input, sd)} :
          /\ seq' = r.slot
          /\ seed' = r.seed
          /\ last' = Call("next_element", "InplaceSeqAccess", seq, sd, r, NoRes)
          /\ cnt' = Count(cnt, r)
    /\ UNCHANGED <<stack, error, fam, input, de, vis, map, enm, ser>>

\* MapAccess::dyn_next_key, dyn_next_value, dyn_next_entry on the
\* InplaceMapAccess
dyn_next(op, sd) ==
    /\ fam = "map"
    /\ \E r \in {MapAccess_next(map, op, input, sd)} :
          /\ map' = r.slot
          /\ seed' = r.seed
          /\ last' = Call(op, "InplaceMapAccess", map, sd, r, NoRes)
          /\ cnt' = Count(cnt, r)
    /\ UNCHANGED <<stack, error, fam, input, de, vis, seq, enm, ser>>

\* EnumAccess::dyn_variant(&mut sd) on the InplaceEnumAccess
dyn_variant(sd, bok) ==
    /\ fam = "enum"
    /\ \E r \in {EnumAccess_dyn_variant(enm, input, sd, bok)} :
          /\ enm' = r.slot
          /\ last' = Call("variant", "InplaceEnumAccess", enm, sd, r, NoRes)
          /\ cnt' = Count(cnt, r)
    /\ UNCHANGED <<stack, error, fam, input, de, vis, seed, seq, map, ser>>

\* VariantAccess::dyn_unit_variant .. dyn_struct_variant on the InplaceEnumAccess
dyn_payload(p, bok) ==
    /\ fam = "enum"
    /\ \E r \in {next_variant_with(enm, p, input, bok)} :
          /\ enm' = r.slot
          /\ last' = Call(p, "InplaceEnumAccess", enm, None, r, NoRes)
          /\ cnt' = Count(cnt, r)
    /\ UNCHANGED <<stack, error, fam, input, de, vis, seed, seq, map, ser>>

\* serde::de::SeqAccess::next_element_seed on &mut dyn SeqAccess, as a visitor
\* calls it
next_element_seed ==
    /\ fam = "seq"
    /\ \E r \in {SeqAccess_next_element_seed(seq, input)} :
          /\ seq' = r.slot
          /\ last' = Call("next_element", "dyn SeqAccess", seq, NewSeed(input.target),
                          r, NoRes)
          /\ cnt' = Count(cnt, r)
    /\ UNCHANGED <<stack, error, fam, input, de, vis, seed, map, enm, ser>>

\* serde::de::MapAccess::next_key_seed and next_value_seed on &mut dyn MapAccess
next_seed(op) ==
    /\ fam = "map"
    /\ \E r \in {MapAccess_next_seed(map, op, input)} :
          /\ map' = r.slot
          /\ last' = Call(op, "dyn MapAccess", map, NewSeed(input.target), r, NoRes)
          /\ cnt' = Count(cnt, r)
    /\ UNCHANGED <<stack, error, fam, input, de, vis, seed, seq, enm, ser>>

\* serde::de::MapAccess::next_entry_seed on &mut dyn MapAccess
next_entry_seed(kd, readon) ==
    /\ fam = "map"
    /\ \E r \in {MapAccess_next_entry_seed(map, input, kd, readon)} :
          /\ map' = r.slot
          /\ last' = Call("next_entry", "dyn MapAccess", map, NewSeed(input.target),
                          r, NoRes)
          /\ cnt' = Count(cnt, r)
    /\ UNCHANGED <<stack, error, fam, input, de, vis, seed, seq, enm, ser>>

\* serde::de::EnumAccess::variant_seed on &mut dyn EnumAccess
variant_seed(bok) ==
    /\ fam = "enum"
    /\ \E r \in {EnumAccess_variant_seed(enm, input, bok)} :
          /\ enm' = r.slot
          /\ last' = Call("variant", "dyn EnumAccess", enm, NewSeed(input.target),
                          r, NoRes)
          /\ cnt' = Count(cnt, r)
    /\ UNCHANGED <<stack, error, fam, input, de, vis, seed, seq, map, ser>>

\* the values a call of method m can hand over
ValuesOf(m) == IF m \in TakesValue THEN NestedValues ELSE {<<>>}

\* the outcomes of the wrapped object when the slot s holds it
BackendOutcomes(s, holding) == IF s.tag = holding THEN BOOLEAN ELSE {TRUE}

\* Serializer::dyn_serialize_m on the InplaceSerializer
dyn_serialize(m, value, bok) ==
    /\ fam = "ser"
    /\ \E r \in {Serializer_dyn_serialize(ser, m, value, bok)} :
          /\ ser' = r.slot
          /\ last' = Call(m, "InplaceSerializer", ser,
                          IF m \in TakesValue THEN Slot("Serialize", value, NoErr, 0)
                          ELSE None, r, NoRes)
          /\ cnt' = Count(cnt, r)
    /\ UNCHANGED <<stack, error, fam, input, de, vis, seed, seq, map, enm>>

\* an element, field, key, value, entry or skip call of builder b
dyn_element(b, e, value, bok) ==
    /\ fam = "ser"
    /\ ser.n < MaxElems
    /\ \E r \in {Builder_dyn_element(ser, b, e, value, bok)} :
          /\ ser' = r.slot
          /\ last' = Call(BuilderOp(b, e), "InplaceSerializer", ser,
                          IF e = "skip_field" THEN None
                          ELSE Slot("Serialize", value, NoErr, 0), r, NoRes)
          /\ cnt' = Count(cnt, r)
    /\ UNCHANGED <<stack, error, fam, input, de, vis, seed, seq, map, enm>>

\* dyn_end of builder b
dyn_end(b, bok) ==
    /\ fam = "ser"
    /\ \E r \in {Builder_dyn_end(ser, b, bok)} :
          /\ ser' = r.slot
          /\ last' = Call(BuilderOp(b, "end"), "InplaceSerializer", ser, None, r, NoRes)
          /\ cnt' = Count(cnt, r)
    /\ UNCHANGED <<stack, error, fam, input, de, vis, seed, seq, map, enm>>

\* serde::Serializer::serialize_m on &mut dyn Serializer, as a value's
\* Serialize impl calls it
serialize(m, value, bok) ==
    /\ fam = "ser"
    /\ \E r \in {Serializer_serialize(ser, m, value, bok)} :
          /\ ser' = r.slot
          /\ last' = Call(m, "dyn Serializer", ser, None, r, Direct_serialize(m, bok))
          /\ cnt' = Count(cnt, r)
    /\ UNCHANGED <<stack, error, fam, input, de, vis, seed, seq, map, enm>>

\* the result of a query: a value, and no call that can fail
Answer(v) ==
    [ret |-> Ok(v), bres |-> NoRes, calls |-> 0, vcalls |-> 0, bcall |-> "-"]

\* dyn_is_human_readable on the InplaceDeserializer or the InplaceSerializer
dyn_is_human_readable ==
    /\ fam \in {"de", "ser"}
    /\ last' = IF fam = "de"
               THEN Call("is_human_readable", "query InplaceDeserializer", de, None,
                         Answer(Deserializer_dyn_is_human_readable(de, input)), NoRes)
               ELSE Call("is_human_readable", "query InplaceSerializer", ser, None,
                         Answer(Serializer_dyn_is_human_readable(ser, input)), NoRes)
    /\ UNCHANGED <<stack, error, fam, input, de, vis, seed, seq, map, enm, ser, cnt>>

\* dyn_expecting on the InplaceVisitor
dyn_expecting ==
    /\ fam = "de"
    /\ \E r \in {Visitor_dyn_expecting(vis)} :
          /\ vis' = r.slot
          /\ last' = Call("expecting", "query InplaceVisitor", vis, None,
                          Answer(r.text), NoRes)
    /\ UNCHANGED <<stack, error, fam, input, de, seed, seq, map, enm, ser, cnt>>

\* dyn_size_hint on the InplaceSeqAccess or the InplaceMapAccess
size_hint ==
    /\ fam \in {"seq", "map"}
    /\ last' = IF fam = "seq"
               THEN Call("size_hint", "query InplaceSeqAccess", seq, None,
                         Answer(dyn_size_hint(seq, "SeqAccess", input)), NoRes)
               ELSE Call("size_hint", "query InplaceMapAccess", map, None,
                         Answer(dyn_size_hint(map, "MapAccess", input)), NoRes)
    /\ UNCHANGED <<stack, error, fam, input, de, vis, seed, seq, map, enm, ser, cnt>>

\* the mirror methods a caller draws from, one for each behaviour of the
\* wrapped backend and visitor
SomeHints == {"any", "bool", "i64", "i128", "option", "seq", "ignored_any"}
SomeVisits == {"bool", "u64", "i128", "unit", "seq", "enum"}
SomeSer == {"bool", "i128", "some", "collect_str"}

\* serde::Deserializer::is_human_readable on &mut dyn Deserializer and
\* serde::Serializer::is_human_readable on &mut dyn Serializer: the glue does
\* not define the method, so the provided one of serde answers, with true;
\* direct is the answer of the backend asked without the glue
is_human_readable ==
    /\ fam \in {"de", "ser"}
    /\ last' = IF fam = "de"
               THEN Call("is_human_readable", "query dyn Deserializer", de, None,
                         Answer("true"), Ok(Backend_is_human_readable(input)))
               ELSE Call("is_human_readable", "query dyn Serializer", ser, None,
                         Answer("true"), Ok(Backend_is_human_readable(input)))
    /\ UNCHANGED <<stack, error, fam, input, de, vis, seed, seq, map, enm, ser, cnt>>

\* an Error is built by the constructor k of de::Error or ser::Error, or by
\* Error::default
new_error(k, a) ==
    /\ fam = "error"
    /\ error.op = "-"
    /\ error' = ErrorRun(error.feature, k, a, Error_new(error.feature, k, a),
                         "new", NoBackendError, "-")
    /\ UNCHANGED <<stack, fam, input, de, vis, seed, seq, map, enm, ser, last, cnt>>

\* Display::fmt(&error)
error_display ==
    /\ fam = "error"
    /\ error.repr # NoCode
    /\ error' = [error EXCEPT !.op = "display", !.text = Repr_Display(error.repr)]
    /\ UNCHANGED <<stack, fam, input, de, vis, seed, seq, map, enm, ser, last, cnt>>

\* error.into_de_error::<E>(), which takes the Error
into_de_error ==
    /\ fam = "error"
    /\ error.repr # NoCode
    /\ error' = [error EXCEPT !.op = "into_de_error", !.repr = NoCode,
                              !.out = Repr_into_de_error(error.repr)]
    /\ UNCHANGED <<stack, fam, input, de, vis, seed, seq, map, enm, ser, last, cnt>>

\* error.into_ser_error::<E>(), which takes the Error
into_ser_error ==
    /\ fam = "error"
    /\ error.repr # NoCode
    /\ error' = [error EXCEPT !.op = "into_ser_error", !.repr = NoCode,
                              !.out = Error_into_ser_error(error.repr)]
    /\ UNCHANGED <<stack, fam, input, de, vis, seed, seq, map, enm, ser, last, cnt>>

NextError ==
    \/ \E k \in ErrorKinds \cup {"ser::custom"} : \E a \in ArgsOf(k) : new_error(k, a)
    \/ new_error("default", NoArgs)
    \/ error_display
    \/ into_de_error
    \/ into_ser_error

\* the wrapped object running innermost calls the glue method g: g builds
\* its adapters and calls the mirror method once; the data are nested no
\* deeper than MaxDepth
enter(g) ==
    /\ fam = "nest"
    /\ Cardinality({i \in 1..Len(stack) : stack[i] \in Nested})
          + (IF g \in Nested THEN 1 ELSE 0) <= MaxDepth
    /\ stack' = Append(stack, g)
    /\ UNCHANGED <<error, fam, input, de, vis, seed, seq, map, enm, ser, last, cnt>>

\* the innermost glue method returns, and its adapters are dropped
leave ==
    /\ fam = "nest"
    /\ stack # <<>>
    /\ stack' = SubSeq(stack, 1, Len(stack) - 1)
    /\ UNCHANGED <<error, fam, input, de, vis, seed, seq, map, enm, ser, last, cnt>>

NextNest ==
    \/ \E g \in MayCall(IF stack = <<>> THEN "-" ELSE stack[Len(stack)]) : enter(g)
    \/ leave

NextDe ==
    \/ \E h \in SomeHints : dyn_deserialize(h)
    \/ \E k \in SomeVisits : dyn_visit(k)
    \/ \E h \in Hints : deserialize(h)
    \/ fam = "de" /\ dyn_is_human_readable
    \/ fam = "de" /\ is_human_readable
    \/ dyn_expecting

NextSeed == seed_dyn_deserialize \/ seed_deserialize

NextAccess ==
    \/ \E sd \in SeedArgs : dyn_next_element(sd)
    \/ \E op \in {"next_key", "next_value", "next_entry"}, sd \in SeedArgs :
          dyn_next(op, sd)
    \/ size_hint
    \/ next_element_seed
    \/ \E op \in {"next_key", "next_value"} : next_seed(op)
    \/ \E kd \in Datums, readon \in BOOLEAN : next_entry_seed(kd, readon)

NextEnum ==
    \/ \E sd \in SeedArgs, bok \in BackendOutcomes(enm, "EnumAccess") :
          dyn_variant(sd, bok)
    \/ \E p \in Payloads, bok \in BackendOutcomes(enm, "VariantAccess") :
          dyn_payload(p, bok)
    \/ \E bok \in BackendOutcomes(enm, "EnumAccess") : variant_seed(bok)

NextSer ==
    \/ \E m \in SomeSer \cup SerBegins, bok \in BackendOutcomes(ser, "Serializer") :
          \E value \in ValuesOf(m) : dyn_serialize(m, value, bok)
    \/ \E b \in SerBegins : \E bok \in BackendOutcomes(ser, BuilderTag(b)) :
          \E e \in ElemOps(b), value \in NestedValues : dyn_element(b, e, value, bok)
    \/ \E b \in SerBegins : \E bok \in BackendOutcomes(ser, BuilderTag(b)) :
          dyn_end(b, bok)
    \/ \E m \in SerPrims \cup SerBegins, bok \in BackendOutcomes(ser, "Serializer") :
          \E value \in ValuesOf(m) : serialize(m, value, bok)
    \/ fam = "ser" /\ dyn_is_human_readable
    \/ fam = "ser" /\ is_human_readable

Next ==
    NextDe \/ NextSeed \/ NextAccess \/ NextEnum \/ NextSer \/ NextError \/ NextNest

Spec == Init /\ [][Next]_vars

\* the runs of one adapter family
InitOfDe == InitCall /\ error = NoErrorRun /\ (InitDe \/ InitSeed)
InitOfAccess == InitCall /\ error = NoErrorRun /\ (InitSeq \/ InitMap \/ InitEnum)
InitOfSer == InitCall /\ error = NoErrorRun /\ InitSer
InitOfError == InitCall /\ InitError

SpecDe == InitOfDe /\ [][NextDe \/ NextSeed]_vars
SpecAccess == InitOfAccess /\ [][NextAccess \/ NextEnum]_vars
SpecSer == InitOfSer /\ [][NextSer]_vars
SpecError == InitOfError /\ [][NextError]_vars

(* ------------------------------ properties ----------------------------- *)
\* C1: serializing through &mut dyn Serializer drives the wrapped backend with
\* the same calls as serializing directly: every serde method called on the
\* trait object of a ready adapter calls the same method of the backend, with
\* the same result.
C1_SameBackendCalls ==
    (last.on = "dyn Serializer" /\ last.pre.tag = "Serializer")
        => (last.bcall = last.op /\ last.bres = last.direct)

\* C2: whenever deserializing the target type directly with the backend
\* succeeds with a value, deserializing it through &mut dyn Deserializer of a
\* ready adapter succeeds with the same value.
C2_SameValue ==
    (last.on = "dyn Deserializer" /\ last.pre.tag = "Deserializer" /\ last.direct.ok)
        => last.ret = last.direct

\* C3: a serde deserialize_* call on &mut dyn Deserializer that reaches the
\* backend's hint method returns Ok if and only if that method returned Ok; if
\* it returned Err after the visitor produced its value, the call returns Err.
C3_OkIffBackendOk ==
    (last.on = "dyn Deserializer" /\ last.calls = 1)
        => (last.ret.ok <=> last.bres.ok)

\* C4: one hint call per InplaceDeserializer: once the backend has been called
\* the slot is never again Deserializer, the backend is called at most once,
\* and a hint call on a slot that is not Deserializer returns
\* Err(NotDeserializer) without calling the backend.
C4_OneHintCall ==
    /\ cnt.backend <= 1
    /\ (cnt.backend >= 1 => de.tag # "Deserializer")
    /\ (last.on = "InplaceDeserializer" => de.tag # "Deserializer")
    /\ (last.on = "InplaceDeserializer" /\ last.pre.tag # "Deserializer")
          => /\ last.ret = Err(DeserializeErrorFrom("NotDeserializer"))
             /\ last.calls = 0
             /\ last.bcall = "-"

\* C4 happens: a hint call on an adapter whose first hint call failed
C4_Witness ==
    /\ last.on = "InplaceDeserializer"
    /\ last.pre.tag = "Error"
    /\ last.ret.err.code = "NotDeserializer"
    /\ cnt.backend = 1

\* C5: one visit call per InplaceVisitor: a visit call never leaves the slot
\* in Visitor, a slot that is not Visitor stays as it is, and a visit call on
\* it returns NotVisitor without invoking the wrapped visitor.
C5_OneVisitCall ==
    [][/\ (vis.tag # "Visitor" => vis' = vis)
       /\ (last'.on = "InplaceVisitor")
             => /\ vis'.tag # "Visitor"
                /\ (vis.tag # "Visitor")
                      => /\ last'.ret = Err(DeserializeErrorFrom("NotVisitor"))
                         /\ last'.vcalls = 0]_vars

\* C5 happens: a visit call on an adapter whose visitor has produced its value
C5_Witness ==
    /\ last.on = "InplaceVisitor"
    /\ last.pre.tag = "Value"
    /\ last.ret.err.code = "NotVisitor"
    /\ vis.tag = "Value"

\* the protocol-violation codes of InplaceSerializeError
C6_NotCodes ==
    {"NotSerializer", "NotSerializeSeq", "NotSerializeTuple",
     "NotSerializeTupleStruct", "NotSerializeTupleVariant", "NotSerializeMap",
     "NotSerializeStruct", "NotSerializeStructVariant"}

\* the terminal operations: the primitive methods and the builders' end
C6_Terminal == SerPrims \cup {BuilderOp(b, "end") : b \in SerBegins}

\* C6: a terminal operation that reached the backend leaves the
\* InplaceSerializer in Ok or Error, and from then on every mirror call
\* returns a Not* error, and every glue call an error, with the slot unchanged
\* and the backend not called.
C6_AfterTerminal ==
    /\ (last.on = "InplaceSerializer" /\ last.calls = 1 /\ last.op \in C6_Terminal)
          => ser.tag \in {"Ok", "Error"}
    /\ (last.on = "InplaceSerializer" /\ last.pre.tag \in {"Ok", "Error"})
          => /\ ~last.ret.ok
             /\ last.ret # Panic
             /\ last.ret.err.code \in C6_NotCodes
             /\ ser = last.pre
             /\ last.calls = 0
    /\ (last.on = "dyn Serializer" /\ last.pre.tag \in {"Ok", "Error"})
          => /\ ~last.ret.ok
             /\ last.ret # Panic
             /\ ser = last.pre
             /\ last.calls = 0

\* C6 happens: dyn_serialize_bool after the end of a sequence
C6_Witness ==
    /\ last.on = "InplaceSerializer"
    /\ last.pre = Slot("Ok", "seq", NoErr, 0)
    /\ last.op = "bool"
    /\ last.ret.err.code = "NotSerializer"

\* C7: InplaceEnumAccess keeps the two-phase order: a payload call on a slot
\* that is not VariantAccess returns NotVariantAccess, dyn_variant on a slot
\* that is not EnumAccess returns NotEnumAccess, neither reaches the wrapped
\* cursor, which sees at most one variant_seed and then at most one payload
\* call.
C7_TwoPhase ==
    /\ (last.on = "InplaceEnumAccess" /\ last.op \in Payloads
           /\ last.pre.tag # "VariantAccess")
          => /\ last.ret = Err(DeserializeErrorFrom("NotVariantAccess"))
             /\ last.calls = 0
    /\ (last.on = "InplaceEnumAccess" /\ last.op = "variant"
           /\ last.pre.tag # "EnumAccess")
          => /\ last.ret = Err(DeserializeErrorFrom("NotEnumAccess"))
             /\ last.calls = 0
    /\ cnt.variant <= 1
    /\ cnt.payload <= 1
    /\ (cnt.payload = 1 => cnt.variant = 1)
    /\ (last.bcall = "variant_seed" => cnt.payload = 0)

\* C7 happens: a second payload call after the variant and its payload
C7_Witness ==
    /\ last.on = "InplaceEnumAccess"
    /\ last.op \in Payloads
    /\ last.ret.err.code = "NotVariantAccess"
    /\ cnt.variant = 1
    /\ cnt.payload = 1

\* the next calls of InplaceSeqAccess and InplaceMapAccess
C8_NextOps == {"next_element", "next_key", "next_entry"}

C9_Adapters ==
    {"InplaceDeserializer", "InplaceDeserializeSeed", "InplaceVisitor",
     "InplaceSeqAccess", "InplaceMapAccess", "InplaceEnumAccess",
     "InplaceSerializer"}

\* the slot of the adapter the last call was made on
C9_Slot ==
    CASE last.on = "InplaceDeserializer" -> de
      [] last.on = "InplaceDeserializeSeed" -> seed
      [] last.on = "InplaceVisitor" -> vis
      [] last.on = "InplaceSeqAccess" -> seq
      [] last.on = "InplaceMapAccess" -> map
      [] last.on = "InplaceEnumAccess" -> enm
      [] last.on = "InplaceSerializer" -> ser

\* the builder whose method the last call was, if it was one
C9_Builders ==
    {b \in SerBegins : \E e \in ElemOps(b) \cup {"end"} : last.op = BuilderOp(b, e)}

\* the state the method of the last call requires
C9_Requires ==
    CASE last.on = "InplaceDeserializer" -> "Deserializer"
      [] last.on = "InplaceDeserializeSeed" -> "DeserializeSeed"
      [] last.on = "InplaceVisitor" -> "Visitor"
      [] last.on = "InplaceSeqAccess" -> "SeqAccess"
      [] last.on = "InplaceMapAccess" -> "MapAccess"
      [] last.on = "InplaceEnumAccess" ->
           IF last.op = "variant" THEN "EnumAccess" ELSE "VariantAccess"
      [] last.on = "InplaceSerializer" ->
           IF C9_Builders = {} THEN "Serializer"
           ELSE BuilderTag(CHOOSE b \in C9_Builders : TRUE)

\* the protocol-violation code that goes with a required state
C9_NotCode(tag) ==
    CASE tag = "Deserializer" -> "NotDeserializer"
      [] tag = "DeserializeSeed" -> "NotDeserializeSeed"
      [] tag = "Visitor" -> "NotVisitor"
      [] tag = "SeqAccess" -> "NotSeqAccess"
      [] tag = "MapAccess" -> "NotMapAccess"
      [] tag = "EnumAccess" -> "NotEnumAccess"
      [] tag = "VariantAccess" -> "NotVariantAccess"
      [] tag = "Serializer" -> "NotSerializer"
      [] tag = "SerializeSeq" -> "NotSerializeSeq"
      [] tag = "SerializeTuple" -> "NotSerializeTuple"
      [] tag = "SerializeTupleStruct" -> "NotSerializeTupleStruct"
      [] tag = "SerializeTupleVariant" -> "NotSerializeTupleVariant"
      [] tag = "SerializeMap" -> "NotSerializeMap"
      [] tag = "SerializeStruct" -> "NotSerializeStruct"
      [] tag = "SerializeStructVariant" -> "NotSerializeStructVariant"

\* C9: a mirror method called on a slot that is not in the state the method
\* requires returns the matching Not* error, does not reach the wrapped
\* object, and leaves the slot exactly as it was.
C9_WrongStateFrame ==
    (last.on \in C9_Adapters /\ last.pre.tag # C9_Requires)
        => /\ ~last.ret.ok
           /\ last.ret.err = [code |-> C9_NotCode(C9_Requires), msg |-> "-"]
           /\ C9_Slot = last.pre
           /\ last.calls = 0
           /\ last.vcalls = 0

\* C9 happens: a map builder's key call on a slot holding a sequence builder
\* that has taken an element
C9_Witness ==
    /\ last.on = "InplaceSerializer"
    /\ last.op = BuilderOp("map", "key")
    /\ last.pre.tag = "SerializeSeq"
    /\ last.pre.n = 1
    /\ last.ret.err.code = "NotSerializeMap"
    /\ ser = last.pre

\* the last call was a terminal mirror call made on a slot in the state it
\* requires: a hint, a visit, a seed's dyn_deserialize, an enum payload, a
\* primitive of the serializer or the end of a builder
C10_TerminalOnHolding ==
    /\ last.on \in C9_Adapters \ {"InplaceSeqAccess", "InplaceMapAccess"}
    /\ last.pre.tag = C9_Requires
    /\ (last.on = "InplaceEnumAccess" => last.op \in Payloads)
    /\ (last.on = "InplaceSerializer" => last.op \in C6_Terminal)

C11_Covered ==
    \/ last.on \in {"InplaceDeserializer", "InplaceEnumAccess"}
    \/ /\ last.on = "InplaceSerializer"
       /\ last.op \in C6_Terminal \cup SerBegins

\* C11: when the backend method such a call invokes returns Err(e), the slot
\* becomes Error(e) with exactly that e and the mirror method returns the
\* bare signal Error, with no value and no text.
C11_CapturedError ==
    (C11_Covered /\ last.calls = 1 /\ ~last.bres.ok)
        => /\ C9_Slot = Slot("Error", "-", last.bres.err, 0)
           /\ last.ret = [ok |-> FALSE, val |-> "-", err |-> [code |-> "Error", msg |-> "-"]]

\* C11 happens: the wrapped cursor's variant_seed failed under dyn_variant
C11_Witness ==
    /\ last.on = "InplaceEnumAccess"
    /\ last.op = "variant"
    /\ last.bres = Err(BackendError("cursor"))
    /\ enm = Slot("Error", "-", BackendError("cursor"), 0)
    /\ last.ret.err.code = "Error"


\* C12: where an error crosses back to the concrete backend, the backend gets
\* the error its own nested call raised: when the deserializer a backend
\* handed to an erased seed fails with e, the seed's deserialize returns e.
C12_SameErrorSurfaces ==
    (last.on = "dyn DeserializeSeed" /\ last.calls = 1 /\ ~last.bres.ok)
        => last.ret = Err(last.bres.err)

\* the last call was dyn_is_human_readable
C13_Query ==
    last.on \in {"query InplaceDeserializer", "query InplaceSerializer"}

\* C13 as stated: before the slot is terminal, builder states included,
\* dyn_is_human_readable is the wrapped backend's answer; once terminal it is
\* true.
C13_BackendUntilTerminal ==
    C13_Query
        => IF last.pre.tag \in {"Deserializer", "Serializer"} \cup BuilderTags
           THEN last.ret = Ok(Backend_is_human_readable(input))
           ELSE last.ret = Ok("true")

\* C13 amended: dyn_is_human_readable is the wrapped backend's answer while
\* the slot holds the backend itself (Deserializer, Serializer), and true in
\* every other state: None, Ok, Error and the seven builder states.
C13_BackendWhileHeld ==
    C13_Query
        => IF last.pre.tag \in {"Deserializer", "Serializer"}
           THEN last.ret = Ok(Backend_is_human_readable(input))
           ELSE last.ret = Ok("true")

\* C13 happens: the query on a map builder over a binary backend answers true
C13_Witness ==
    /\ last.on = "query InplaceSerializer"
    /\ last.pre.tag = "SerializeMap"
    /\ input.fmt = "positional"
    /\ last.ret = Ok("true")

\* the last call was dyn_size_hint
C14_Query ==
    last.on \in {"query InplaceSeqAccess", "query InplaceMapAccess"}

\* C14: dyn_size_hint is the wrapped cursor's size_hint whenever the slot
\* holds the cursor, however many next calls have succeeded, and None once
\* the slot is Error.
C14_SizeHint ==
    C14_Query
        => IF last.pre.tag \in {"SeqAccess", "MapAccess"}
           THEN last.ret = Ok(Cursor_size_hint(last.pre, input))
           ELSE last.pre.tag = "Error" /\ last.ret = Ok("None")

\* C14 happens: the query after a next call has taken an element
C14_Witness ==
    /\ last.on = "query InplaceSeqAccess"
    /\ last.pre.tag = "SeqAccess"
    /\ last.pre.n = 1
    /\ Len(input.script) = 2
    /\ last.ret = Ok("Some(1)")


\* C15: a call of the InplaceSerializer that finds the slot in the state it
\* works on
C15_Begin == last.op \in SerBegins /\ last.pre.tag = "Serializer"

C15_Element ==
    \E b \in SerBegins : \E e \in ElemOps(b) :
        last.op = BuilderOp(b, e) /\ last.pre.tag = BuilderTag(b)

C15_End ==
    \E b \in SerBegins : last.op = BuilderOp(b, "end") /\ last.pre.tag = BuilderTag(b)

\* C15: on InplaceSerializer a composite-begin call in state Serializer, an
\* element, field, key, value, entry or skip call of the held builder, and the
\* dyn_end of the held builder each reach the backend; when the backend
\* succeeds the call returns Ok and the begin leaves the builder state of its
\* shape, the element call leaves the same builder state with one more
\* element written, and dyn_end leaves Ok(output)
C15_BuilderLifecycle ==
    (last.on = "InplaceSerializer" /\ (C15_Begin \/ C15_Element \/ C15_End))
        => /\ last.calls = 1
           /\ last.bcall = last.op
           /\ last.bres.ok =>
                /\ last.ret = Ok("()")
                /\ C15_Begin => ser = Slot(BuilderTag(last.op), "S", NoErr, 0)
                /\ C15_Element => ser = [last.pre EXCEPT !.n = @ + 1]
                /\ C15_End => ser = Slot("Ok", last.bres.val, NoErr, 0)

\* C15: the second entry written into a map builder leaves the map builder
C15_Witness ==
    /\ last.on = "InplaceSerializer"
    /\ last.op = BuilderOp("map", "entry")
    /\ last.pre = Slot("SerializeMap", "S", NoErr, 1)
    /\ last.ret.ok
    /\ ser = Slot("SerializeMap", "S", NoErr, 2)


\* C16: the shape whose builder method is named op
C16_ShapeOf(op) ==
    CHOOSE b \in SerBegins : \E e \in ElemOps(b) \cup {"end"} : op = BuilderOp(b, e)

\* C16: the error a method returns when the slot is not in its state
C16_NotCode(op) ==
    IF op \in SerPrims \cup SerBegins THEN "NotSerializer"
    ELSE "Not" \o BuilderTag(C16_ShapeOf(op))

\* C16: the method named op is an operation of the builder held in state tag
C16_Matches(op, tag) ==
    /\ op \notin SerPrims \cup SerBegins
    /\ BuilderTag(C16_ShapeOf(op)) = tag

\* C16: while the InplaceSerializer holds a builder no call moves it to another
\* builder state or back to Serializer; a Serializer method and an operation
\* of another shape return their own Not* error without reaching the backend
\* and leave the slot as it was, builder and elements written included
C16_ShapeFixed ==
    [][ser.tag \in BuilderTags
          => /\ ser'.tag \in {ser.tag, "Ok", "Error"}
             /\ (last'.on = "InplaceSerializer" /\ ~C16_Matches(last'.op, ser.tag))
                   => /\ last'.ret = Err(SerializeErrorFrom(C16_NotCode(last'.op)))
                      /\ last'.calls = 0
                      /\ ser' = ser]_vars

\* C16: dyn_end of a map called on a sequence builder that has one element
C16_Witness ==
    /\ last.on = "InplaceSerializer"
    /\ last.op = BuilderOp("map", "end")
    /\ last.pre = Slot("SerializeSeq", "S", NoErr, 1)
    /\ last.ret = Err(SerializeErrorFrom("NotSerializeMap"))
    /\ ser = last.pre


\* C17: a deserialize_H of the serde glue on a &mut dyn Deserializer whose
\* adapter holds the backend makes exactly one call of the backend, and that
\* call is the backend's deserialize_H of the same hint H
C17_SameHintForwarded ==
    (last.on = "dyn Deserializer" /\ last.pre.tag = "Deserializer")
        => /\ last.calls = 1
           /\ last.bcall = last.op


\* C18: a serialize method M of the serde glue on a &mut dyn Serializer whose
\* adapter holds the backend, serialize_i128, serialize_u128 and collect_str
\* included, makes exactly one call of the backend, and that call is the
\* backend's method M
C18_SameShapeForwarded ==
    (last.on = "dyn Serializer" /\ last.pre.tag = "Serializer")
        => /\ last.calls = 1
           /\ last.bcall = last.op


\* C19: no call of an adapter or of the serde glue panics: every call returns
\* Ok or an error value, whatever the caller does and whatever the wrapped
\* backend, cursor, visitor, seed or Serialize implementation reports
C19_NoPanic == last.ret # Panic


\* C20: the protocol-violation errors of the decoding adapters
C20_NotCodes ==
    {"NotDeserializer", "NotDeserializeSeed", "NotVisitor", "NotSeqAccess",
     "NotMapAccess", "NotEnumAccess", "NotVariantAccess"}

\* C20: in a decode driven through the serde glue a Not* error comes from misuse
\* only: a visitor that was returned Ok by next_element_seed, next_key_seed,
\* next_value_seed or next_entry_seed of the glue and calls the cursor again is
\* never returned a Not* error, whatever the wrapped cursor reported
C20_OnlyByMisuse ==
    [][(/\ last.on \in {"dyn SeqAccess", "dyn MapAccess"}
        /\ last.ret.ok
        /\ last'.on = last.on)
          => last'.ret.err.code \notin C20_NotCodes]_vars


\* C21: a deserialize_* call of the glue that ends in InplaceVisitor::into_result
C21_Expect == last.on = "dyn Deserializer" /\ last.op \in GlueHints

\* C21: the visit the backend makes on that call succeeded: the backend was
\* held, and the wrapped visitor accepts the visit
C21_VisitSucceeded ==
    /\ last.pre.tag = "Deserializer"
    /\ BackendPlan(input, GlueHint(last.op)) \in Accepts(input.target)

\* C21: what into_result returns: the wrapped visitor's value when the visit
\* succeeded, otherwise the error of the dyn hint call
C21_Returns ==
    IF C21_VisitSucceeded
    THEN last.ret = Ok(ValueOf(BackendPlan(input, GlueHint(last.op))))
    ELSE last.ret = Err(DeserializeErrorFrom(
                        IF last.pre.tag = "Deserializer" THEN "Error"
                        ELSE "NotDeserializer"))

C22_Queries ==
    {"query InplaceVisitor", "query InplaceDeserializer", "query InplaceSerializer",
     "query InplaceSeqAccess", "query InplaceMapAccess"}

\* C22: dyn_expecting, dyn_is_human_readable and dyn_size_hint change no slot
\* and no count of calls in any state, so every later call finds the adapters
\* as if the query had not been made; dyn_expecting writes the wrapped
\* visitor's expecting in state Visitor and a fixed text in the other states
C22_QueriesFrame ==
    [][last'.on \in C22_Queries
          => /\ UNCHANGED <<stack, error, fam, input, de, vis, seed, seq, map, enm, ser, cnt>>
             /\ last'.ret.ok
             /\ last'.on = "query InplaceVisitor"
                  => last'.ret.val =
                       CASE vis.tag = "Visitor" -> Visitor_expecting(vis.val)
                         [] vis.tag = "Value" ->
                              "nothing (the deserialization has done successfully)"
                         [] OTHER -> "nothing (the visitor is not ready)"]_vars

\* C22: dyn_expecting asked of a visitor that is still in the slot, after a
\* call that failed on the deserializer
C22_Witness ==
    /\ last.on = "query InplaceVisitor"
    /\ last.pre.tag = "Visitor"
    /\ vis = last.pre
    /\ de.tag = "Error"
    /\ last.ret = Ok(Visitor_expecting(input.target))


\* C23: dyn_deserialize on the InplaceDeserializeSeed returns
\* Err(NotDeserializeSeed) on a slot that no longer holds the seed, without
\* running anything; it returns an error when the given deserializer is
\* consumed and when the wrapped seed fails; it returns Ok only with the slot
\* in Value holding the wrapped seed's result; the wrapped seed runs at most
\* once
C23_SeedOnce ==
    /\ fam = "seed" => cnt.visitor <= 1
    /\ last.on = "InplaceDeserializeSeed"
         => /\ last.pre.tag # "DeserializeSeed"
                 => /\ last.ret = Err(DeserializeErrorFrom("NotDeserializeSeed"))
                    /\ last.vcalls = 0
                    /\ seed = last.pre
            /\ last.prearg.tag # "Deserializer" => ~last.ret.ok
            /\ last.pre.tag = "DeserializeSeed"
                 => /\ last.vcalls = 1
                    /\ last.ret.ok <=> seed.tag = "Value"
            /\ last.ret.ok
                 => seed = Slot("Value",
                                ValueOf(BackendPlan(input,
                                    GlueHint(TargetHint(last.pre.val)))),
                                NoErr, 0)

\* C23: the second dyn_deserialize on a seed that produced its value
C23_Witness ==
    /\ last.on = "InplaceDeserializeSeed"
    /\ last.pre.tag = "Value"
    /\ last.ret = Err(DeserializeErrorFrom("NotDeserializeSeed"))
    /\ cnt.visitor = 1
    /\ seed = last.pre


\* C24: the cursor adapter a next call was made on, after the call
C24_SlotAfter == IF last'.on = "InplaceSeqAccess" THEN seq' ELSE map'

\* C24: a next, value or entry call of InplaceSeqAccess / InplaceMapAccess on a
\* slot that holds the cursor reaches the cursor; when the cursor returns Ok the
\* slot still holds it and the call returns that Ok; when it returns Err(e) the
\* slot becomes Error(e) and the call returns Err(Error). A slot in Error never
\* changes again, and every call on it returns NotSeqAccess / NotMapAccess
\* without reaching the cursor
C24_HoldingUntilError ==
    [][/\ seq.tag = "Error" => seq' = seq
       /\ map.tag = "Error" => map' = map
       /\ last'.on \in {"InplaceSeqAccess", "InplaceMapAccess"}
            => /\ last'.pre.tag \in {"SeqAccess", "MapAccess"}
                    => /\ last'.calls = 1
                       /\ last'.bres.ok
                            => /\ C24_SlotAfter.tag = last'.pre.tag
                               /\ last'.ret = last'.bres
                       /\ ~last'.bres.ok
                            => /\ C24_SlotAfter = Slot("Error", "-", last'.bres.err, 0)
                               /\ last'.ret = Err(DeserializeErrorFrom("Error"))
               /\ last'.pre.tag = "Error"
                    => /\ last'.calls = 0
                       /\ C24_SlotAfter = last'.pre
                       /\ last'.ret = Err(DeserializeErrorFrom(
                              IF last'.on = "InplaceSeqAccess" THEN "NotSeqAccess"
                              ELSE "NotMapAccess"))]_vars

\* C24: a value call on a map access whose cursor failed at the key before
C24_Witness ==
    /\ last.on = "InplaceMapAccess"
    /\ last.op = "next_value"
    /\ last.pre.tag = "Error"
    /\ last.pre.err = BackendError("cursor")
    /\ last.ret = Err(DeserializeErrorFrom("NotMapAccess"))
    /\ map = last.pre


\* C25: the call before was a next call of InplaceSeqAccess / InplaceMapAccess
\* on which the wrapped cursor reported exhaustion, and the same adapter is
\* called again
C25_AfterExhaustion ==
    /\ last.on \in {"InplaceSeqAccess", "InplaceMapAccess"}
    /\ last.calls = 1
    /\ last.bres = Ok("none")
    /\ last'.on = last.on

C26_RoundTrip ==
    (/\ fam = "error"
     /\ error.feature
     /\ error.kind \in ErrorKinds
     /\ error.op = "into_de_error")
        => /\ error.out.kind = error.kind
           /\ error.out.args = error.args


\* C27: with the feature `error` enabled, the text an Error displays, and the
\* text of the backend error a conversion of it makes, is the text the
\* backend error built by the same constructor on the same arguments
\* displays, for custom and for each of the seven classified kinds
C27_SameText ==
    (/\ fam = "error"
     /\ error.feature
     /\ error.kind \in ErrorKinds)
        => /\ error.op = "display"
                => error.text = Backend_Display(error.kind, error.args)
           /\ error.op \in {"into_de_error", "into_ser_error"}
                => error.out.text = Backend_Display(error.kind, error.args)


\* C28: a classified error (here invalid_type) that the wrapped visitor
\* raises while the backend drives it through the &mut dyn Visitor glue
\* arrives at the backend as the backend's error of the same classified kind,
\* as it does when the backend drives the visitor directly, and not as a
\* custom error of free text
C28_VisitorRaised ==
    /\ last.on = "dyn Deserializer"
    /\ last.calls = 1
    /\ last.vcalls = 1
    /\ ~last.direct.ok
    /\ last.direct.err.code = "InvalidType"

C28_ClassifiedKept ==
    C28_VisitorRaised
        => /\ ~last.bres.ok
           /\ last.bres.err.code = last.direct.err.code
           /\ last.bres.err.code # "BackendCustom"


\* C29: without the feature `error`, every constructor of Error (custom and
\* the seven classified kinds of de::Error, custom of ser::Error) drops its
\* arguments and gives the one marker value; the marker displays one fixed
\* text, and into_de_error and into_ser_error make the custom error of the
\* backend of that text, whatever the Error was built from
C29_MarkerOnly ==
    (fam = "error" /\ ~error.feature /\ error.op # "-")
        => /\ error.op = "new" => error.repr = Code("Repr", NoArgs)
           /\ error.op = "display"
                => error.text = GenericText /\ error.repr = Code("Repr", NoArgs)
           /\ error.op \in {"into_de_error", "into_ser_error"}
                => /\ error.out.kind = "custom"
                   /\ error.out.args = [NoArgs EXCEPT !.text = GenericText]
                   /\ error.out.text = GenericText

\* C29 witness: a marker built by invalid_type from its arguments, displayed,
\* has been converted by into_de_error
C29_Witness ==
    /\ fam = "error"
    /\ ~error.feature
    /\ error.kind = "invalid_type"
    /\ error.args.unexp = <<"Bool", "true">>
    /\ error.text = GenericText
    /\ error.op = "into_de_error"
    /\ error.out.kind = "custom"


\* the adapters alive while the glue calls of the stack are running
C30_Alive ==
    LET Sum[i \in 0..Len(stack)] ==
            IF i = 0 THEN 0 ELSE Sum[i - 1] + Adapters(stack[i])
    IN Sum[Len(stack)]

\* the nesting depth of the data the innermost running glue call works on
C30_Depth == 1 + Cardinality({i \in 1..Len(stack) : stack[i] \in Nested})

C31_SameFormatKind ==
    last.on \in {"query dyn Deserializer", "query dyn Serializer"}
        => /\ last.ret.ok
           /\ last.ret.val =
                IF last.on = "query dyn Deserializer"
                THEN Deserializer_dyn_is_human_readable(last.pre, input)
                ELSE Serializer_dyn_is_human_readable(last.pre, input)
           /\ last.pre.tag \in {"Deserializer", "Serializer"}
                => last.ret = last.direct


(* ------------------- errors of the wrapped cursor ---------------------- *)
\* C32: when the wrapped cursor's next_element_seed, next_key_seed,
\* next_value_seed or next_entry_seed returns Err, the serde method on
\* &mut dyn SeqAccess or &mut dyn MapAccess returns Err to the visitor, also
\* when the seed had been driven to Value before the cursor failed
C32_CursorErrorReturned ==
    /\ last.on \in {"dyn SeqAccess", "dyn MapAccess"}
    /\ last.calls = 1
    /\ ~last.bres.ok
    => ~last.ret.ok


\* C33: in next_entry_seed on &mut dyn MapAccess a value seed that ends in
\* Value has a key seed that ended in Value: the entry pairs the two results
\* and the unreachable!() arm is never taken, whatever the wrapped cursor does
C33_KeyBeforeValue ==
    last.on = "dyn MapAccess" /\ last.op = "next_entry"
        => ~(last.ret.val = "panic" /\ ~last.ret.ok)


(* --------------------- a builder whose backend failed ------------------ *)
\* the element, field, key, value, entry and skip calls of the builders
C34_ElementOps == {BuilderOp(b, e) : b \in SerBegins, e \in {"element", "field", "key", "value", "entry", "skip_field"}}

\* C34: when the backend call of an element, field, key, value, entry or skip
\* operation returns Err(e), the InplaceSerializer becomes Error(e) and the
\* operation returns InplaceSerializeError::Error; on an adapter that holds
\* Error(e) every element operation and dyn_end returns its Not* error without
\* reaching the backend and leaves Error(e) in place, and serde::Serialize for
\* dyn Serialize returns Err(e) from that adapter
C34_BuilderError ==
    last.on = "InplaceSerializer"
        => /\ last.op \in C34_ElementOps /\ last.calls = 1 /\ ~last.bres.ok
                => /\ ser = Slot("Error", "-", last.bres.err, 0)
                   /\ last.ret = Err(SerializeErrorFrom("Error"))
                   /\ Serialize_serialize_match(ser, last.ret) = Err(last.bres.err)
           /\ last.pre.tag = "Error"
                => /\ \A b \in SerBegins : \A e \in ElemOps(b) \cup {"end"} :
                        last.op = BuilderOp(b, e)
                            => /\ last.ret = Err(SerializeErrorFrom("Not" \o BuilderTag(b)))
                               /\ last.calls = 0
                   /\ ser = last.pre
                   /\ Serialize_serialize_match(ser, last.ret) = Err(last.pre.err)

\* C34: an element call whose backend failed, on a builder that had taken an
\* element before
C34_Witness ==
    /\ last.on = "InplaceSerializer"
    /\ last.op \in C34_ElementOps
    /\ last.pre.tag \in BuilderTags
    /\ last.pre.n = 1
    /\ ~last.bres.ok
    /\ ser.tag = "Error"


(* ------------------ serde::Serialize for dyn Serialize ------------------ *)
\* C35: in serde::Serialize for dyn Serialize the inner dyn_serialize call
\* returns Ok if and only if the InplaceSerializer ends in Ok(_): for every
\* value the wrapped backend is handed, the function returns Ok(output) exactly
\* when the serialization of the value succeeded, the error of the backend when
\* the slot is Error, and otherwise the SerializeError of the value converted
\* with S::Error::custom
C35_OkIffSerialized ==
    /\ last.on = "InplaceSerializer"
    /\ last.prearg.tag = "Serialize"
    /\ last.calls = 1
    => \A bok \in BOOLEAN :
         \E r \in {Serialize_dyn_serialize(NewSerializer, last.prearg.val, bok)} :
         \E f \in {Serialize_serialize(last.prearg.val, bok)} :
            /\ r.ret.ok <=> r.slot.tag = "Ok"
            /\ f.ok <=> r.ret.ok
            /\ r.slot.tag = "Ok" => f = Ok(r.slot.val)
            /\ r.slot.tag = "Error" => f = Err(r.slot.err)
            /\ r.slot.tag \notin {"Ok", "Error"}
                 => f = Err(SerializeErrorIntoError(r.ret.err))


(* ---------------------- once, or not at all ---------------------------- *)
\* how often the last mirror call invoked the object its adapter wraps: the
\* visitor or seed of an InplaceVisitor or InplaceDeserializeSeed, the backend
\* or cursor of the other adapters
C36_Reached ==
    IF last.on \in {"InplaceVisitor", "InplaceDeserializeSeed"}
    THEN last.vcalls ELSE last.calls

\* the protocol-violation codes of the adapters
C36_NotCodes == C20_NotCodes \cup C6_NotCodes

\* C36: a mirror call invokes the wrapped backend, cursor, visitor or seed
\* exactly once when the slot is in the state the call requires and zero times
\* otherwise; no call that returns a Not* protocol violation reaches the
\* wrapped object, and no call reaches it twice
C36_OnceOrNever ==
    last.on \in C9_Adapters
        => /\ C36_Reached = IF last.pre.tag = C9_Requires THEN 1 ELSE 0
           /\ (~last.ret.ok /\ last.ret.err.code \in C36_NotCodes)
                => C36_Reached = 0

\* C36: a mirror call invokes the wrapped object exactly once when the slot is
\* in the state the call requires and zero times otherwise; a call that
\* returns the Not* violation of its own slot has not reached the wrapped
\* object; a Not* violation returned by a call that did reach it is the one a
\* wrapped seed or visitor got from the spent adapter it was handed
C36_OnceOrNeverOwn ==
    last.on \in C9_Adapters
        => /\ C36_Reached = IF last.pre.tag = C9_Requires THEN 1 ELSE 0
           /\ (~last.ret.ok /\ last.ret.err.code = C9_NotCode(C9_Requires))
                => C36_Reached = 0
           /\ (~last.ret.ok /\ last.ret.err.code \in C36_NotCodes /\ C36_Reached # 0)
                => /\ last.on \in {"InplaceVisitor", "InplaceDeserializeSeed"}
                   /\ last.prearg.tag # "Deserializer"
                   /\ last.ret.err.code = "NotDeserializer"

\* C36: a seed that was invoked once, on a deserializer that had been used
C36_Witness ==
    /\ last.on = "InplaceDeserializeSeed"
    /\ last.pre.tag = "DeserializeSeed"
    /\ last.vcalls = 1
    /\ ~last.ret.ok
    /\ last.ret.err.code = "NotDeserializer"


(* ------------------- the cursor or its error, always -------------------- *)
\* the cursor adapter of the run, before and after a step
C37_Slot == IF fam = "seq" THEN seq ELSE map
C37_SlotAfter == IF fam = "seq" THEN seq' ELSE map'

\* the variant that holds the cursor
C37_Holding == IF fam = "seq" THEN "SeqAccess" ELSE "MapAccess"

\* a step of a cursor adapter: a captured error stays, a cursor that stays is
\* the same cursor, and a cursor gives way only to the error it returned
C37_Step ==
    fam \in {"seq", "map"}
        => /\ C37_Slot.tag = "Error" => C37_SlotAfter = C37_Slot
           /\ (C37_Slot.tag = C37_Holding /\ C37_SlotAfter.tag = C37_Holding)
                => C37_SlotAfter.val = C37_Slot.val
           /\ (C37_Slot.tag = C37_Holding /\ C37_SlotAfter.tag = "Error")
                => /\ last'.pre = C37_Slot
                   /\ last'.calls = 1
                   /\ ~last'.bres.ok
                   /\ C37_SlotAfter.err = last'.bres.err

\* C37: InplaceSeqAccess and InplaceMapAccess are never empty: in every
\* reachable state the slot holds the wrapped cursor or a captured error; the
\* cursor stays in place across next calls, it is dropped only when it is
\* replaced by the error it returned, and a captured error is never overwritten
C37_CursorOrError ==
    /\ [](fam \in {"seq", "map"} => C37_Slot.tag \in {C37_Holding, "Error"})
    /\ [][C37_Step]_vars

\* C37: a next call on an adapter that holds the error its cursor returned
\* after it had yielded an element
C37_Witness ==
    /\ fam \in {"seq", "map"}
    /\ last.on \in {"InplaceSeqAccess", "InplaceMapAccess", "dyn SeqAccess", "dyn MapAccess"}
    /\ last.pre.tag = "Error"
    /\ last.pre.err = BackendError("cursor")
    /\ C37_Slot = last.pre
    /\ cnt.backend = 2

====
